---------------------------- MODULE Spec2Model ----------------------------
(***************************************************************************)
(* MAF Machine: the activity analysis and trend-derivation engine          *)
(* (lib/mafAnalysis: analyzeActivity, computeTrends, computeSummary) and   *)
(* the advisory selector (RunAdvisor: generateAdvice).                     *)
(*                                                                         *)
(* Numbers.  The code computes in IEEE doubles; the model computes in      *)
(* exact rationals <<numerator, denominator>> kept in lowest terms with a  *)
(* positive denominator, so two equal numbers are equal values.  A         *)
(* `number | null` is <<>> for null.  An optional input (a field that may  *)
(* be absent, a stream that may be missing) is <<>> when absent and <<v>>  *)
(* when present.  Timestamps (Date.getTime()) count ticks of 1/TicksPerDay *)
(* of a day instead of milliseconds.                                       *)
(***************************************************************************)
EXTENDS Integers, Sequences, FiniteSets, TLC

VARIABLES
    args,        \* the arguments of the analyzeActivity call under study
    analyzed,    \* what that call returned (<<>> before it has returned)
    previous,    \* what the same call returned the time before (<<>> before that)
    pool,        \* the analyzed activities the cache can hold
    activities,  \* the activity list handed to the trend, summary and advice code
    now,         \* Date.now()
    trends,      \* computeTrends(activities) as last computed
    summary,     \* computeSummary(activities) as last computed (<<>> before)
    summaryAt,   \* the clock reading that computeSummary call took
    advice,      \* generateAdvice(summary, activities, ...) as last rendered
    adviceAt,    \* the clock reading that generateAdvice call took
    shown,       \* the arguments of the formatPace call under study
    text,        \* what that call returned (<<>> before it has returned)
    settings,      \* Dashboard state: the athlete's settings
    allActivities, \* Dashboard state: the cache of analyzed activities
    localStorage,  \* the browser's store: maf_activities and maf_excluded
    syncing,       \* Dashboard state: a sync is shown as running
    error,         \* Dashboard state: the error shown (<<>> for none)
    syncs,         \* the syncActivities runs started since the page loaded
    timers,        \* the setTimeout callbacks pending
    dateRange,     \* Dashboard state: the start of the date range shown
    lastSyncRange, \* the ref lastSyncRange.current (<<>> for '')
    mounted,       \* the mount effect has run
    mergeCall,     \* the last mergeIntoCache call: the cache it found, its batch
    clicks,        \* what the user has done so far, counted
    kv,            \* the Worker's KV namespace MAF_ACTIVITIES, for one athlete
    strava,        \* what Strava holds of the athlete's activities
    requests       \* the requests the Worker has accepted, each where it stands

analyzerVars == <<args, analyzed, previous>>
pipelineVars == <<pool, activities, now, trends, summary, summaryAt, advice, adviceAt>>
formatVars == <<shown, text>>
dashVars == <<settings, allActivities, localStorage, syncing, error, syncs, timers, dateRange,
              lastSyncRange, mounted, mergeCall, clicks>>
workerVars == <<kv, strava, requests>>
vars == <<args, analyzed, previous, pool, activities, now, trends, summary, summaryAt, advice,
          adviceAt, shown, text, settings, allActivities, localStorage, syncing, error, syncs,
          timers, dateRange, lastSyncRange, mounted, mergeCall, clicks, kv, strava,
          requests>>

\* no Dashboard on the page
NoDashboard ==
    /\ settings = <<>>
    /\ allActivities = <<>>
    /\ localStorage = <<>>
    /\ syncing = FALSE
    /\ error = <<>>
    /\ syncs = <<>>
    /\ timers = <<>>
    /\ dateRange = 0
    /\ lastSyncRange = <<>>
    /\ mounted = FALSE
    /\ mergeCall = <<>>
    /\ clicks = <<>>

\* no Worker request under study
NoWorker ==
    /\ kv = <<>>
    /\ strava = <<>>
    /\ requests = <<>>

-----------------------------------------------------------------------------
(* Exact arithmetic standing for the code's number arithmetic.             *)

Null == <<>>
Some(x) == <<x>>

Abs(x) == IF x < 0 THEN -x ELSE x

RECURSIVE GCD(_, _)
GCD(a, b) == IF b = 0 THEN a ELSE GCD(b, a % b)

LCM(a, b) == (a \div GCD(a, b)) * b

Norm(n, d) ==
    LET g == GCD(Abs(n), Abs(d))
        s == IF d < 0 THEN -1 ELSE 1
    IN  <<(s * n) \div g, (s * d) \div g>>

R(n) == <<n, 1>>

RAdd(p, q) ==
    LET l == LCM(p[2], q[2])
    IN  Norm(p[1] * (l \div p[2]) + q[1] * (l \div q[2]), l)

RNeg(p) == <<-p[1], p[2]>>

RSub(p, q) == RAdd(p, RNeg(q))

RMul(p, q) ==
    LET a == Norm(p[1], q[2])
        b == Norm(q[1], p[2])
    IN  Norm(a[1] * b[1], a[2] * b[2])

\* p / q for q # 0
RDiv(p, q) == RMul(p, Norm(q[2], q[1]))

RLt(p, q) == RSub(p, q)[1] < 0
RLe(p, q) == RSub(p, q)[1] <= 0
RGt(p, q) == RLt(q, p)
RGe(p, q) == RLe(q, p)

\* Math.floor and Math.round (half up)
RFloor(p) == p[1] \div p[2]
RRound(p) == (2 * p[1] + p[2]) \div (2 * p[2])

\* array.reduce((a, b) => a + b, 0) over integers, and over rationals
RECURSIVE SumInt(_)
SumInt(s) == IF s = <<>> THEN 0 ELSE Head(s) + SumInt(Tail(s))

RECURSIVE SumRat(_)
SumRat(s) == IF s = <<>> THEN R(0) ELSE RAdd(Head(s), SumRat(Tail(s)))

\* array.slice(from) and array.slice(from, to), 0-based as in the code
SliceFrom(s, from) == SubSeq(s, from + 1, Len(s))
Slice(s, from, to) == SubSeq(s, from + 1, IF to < Len(s) THEN to ELSE Len(s))

Min(a, b) == IF a < b THEN a ELSE b

-----------------------------------------------------------------------------
(* lib/mafAnalysis: unit conversion.                                       *)

\* METERS_PER_MILE = 1609.344 = 201168/125
METERS_PER_MILE == <<201168, 125>>
METERS_PER_KM == <<1000, 1>>

velocityToPace(metersPerSec, units) ==
    IF metersPerSec <= 0 THEN R(0)
    ELSE LET divisor == IF units = "mi" THEN METERS_PER_MILE ELSE METERS_PER_KM
         IN  RDiv(RDiv(divisor, R(metersPerSec)), R(60))

\* (the heart rate left unguarded)
computeEFOfAnyHr(avgSpeedMs, avgHr) ==
    IF avgSpeedMs <= 0 THEN R(0)
    ELSE RDiv(R(avgSpeedMs * 60), R(avgHr))

computeEF(avgSpeedMs, avgHr) ==
    IF avgHr <= 0 \/ avgSpeedMs <= 0 THEN R(0)
    ELSE RDiv(R(avgSpeedMs * 60), R(avgHr))

\* seconds.toString().padStart(2, '0')
padStart2(n) == IF n < 10 THEN "0" \o ToString(n) ELSE ToString(n)

\* (a formatter that carries 60 seconds into the minutes)
formatPaceCarrying(pace, units) ==
    LET minutes == RFloor(pace)
        seconds == RRound(RMul(RSub(pace, R(minutes)), R(60)))
    IN  IF seconds = 60
        THEN ToString(minutes + 1) \o ":00 /" \o units
        ELSE ToString(minutes) \o ":" \o padStart2(seconds) \o " /" \o units

\* `${minutes}:${seconds.toString().padStart(2, '0')} /${units}`
formatPace(pace, units) ==
    LET minutes == RFloor(pace)
        seconds == RRound(RMul(RSub(pace, R(minutes)), R(60)))
    IN  ToString(minutes) \o ":" \o padStart2(seconds) \o " /" \o units

\* no pace on display yet
NothingShown == [pace |-> R(0), units |-> "km"]

-----------------------------------------------------------------------------
(* lib/mafAnalysis: analyzeActivity.                                       *)
(* A raw activity is [id, start_date, elapsed_time, average_speed,         *)
(* average_heartrate, average_cadence]; the last two are optional.  A      *)
(* stream set is [heartrate, velocity_smooth, cadence], each optional.     *)

\* activity.average_heartrate || 0
OrZero(opt) == IF opt = Null THEN 0 ELSE opt[1]

\* if (activity.average_heartrate): present and not 0
Truthy(opt) == opt # Null /\ opt[1] # 0

\* (a zone open at its upper end)
inZoneOpen(h, low, high) == h >= low /\ h < high

\* hr[i] >= mafZoneLow && hr[i] <= mafZoneHigh
inZone(h, low, high) == h >= low /\ h <= high

\* len > 0 ? (count / len) * 100 : 0
zonePct(count, len) ==
    IF len > 0 THEN RMul(RDiv(R(count), R(len)), R(100)) ELSE R(0)

\* (the coarse estimate with its two values exchanged)
coarsePctSwapped(avgHr, low, high) ==
    IF avgHr >= low /\ avgHr <= high THEN <<25, 1>> ELSE <<75, 1>>

\* the coarse estimate of the branch without streams
coarsePct(avgHr, low, high) == IF inZone(avgHr, low, high) THEN R(75) ELSE R(25)

\* (a run must be longer than 1200 s, spend more than 60% in the zone)
isQualifyingStrict(excluded, elapsed_time, timeInQualifyingPct) ==
    ~excluded /\ elapsed_time > 1200 /\ RGt(timeInQualifyingPct, R(60))

\* !excluded && activity.elapsed_time >= 1200 && timeInQualifyingPct >= 60
isQualifying(excluded, elapsed_time, timeInQualifyingPct) ==
    ~excluded /\ elapsed_time >= 1200 /\ RGe(timeInQualifyingPct, R(60))

\* streams?.heartrate?.data && streams?.velocity_smooth?.data
hasStreams(streams) ==
    /\ streams # Null
    /\ streams[1].heartrate # Null
    /\ streams[1].velocity_smooth # Null

\* const len = Math.min(hr.length, velocity.length)
streamLen(hr, velocity) == Min(Len(hr), Len(velocity))

\* cadence && cadence[i] > 0, i 1-based here
cadenceAt(cadence, i) ==
    IF cadence # Null /\ i <= Len(cadence[1]) /\ cadence[1][i] > 0
    THEN cadence[1][i] ELSE 0

\* the first half's mean heart rate and the second half's, as the code takes them
cardiacDriftOf(hr, len) ==
    LET midpoint == len \div 2
        firstHalfHr == RDiv(R(SumInt(Slice(hr, 0, midpoint))), R(midpoint))
        secondHalfHr == RDiv(R(SumInt(SliceFrom(hr, midpoint))), R(len - midpoint))
    IN  IF midpoint > 0
        THEN IF RGt(firstHalfHr, R(0))
             THEN RMul(RDiv(RSub(secondHalfHr, firstHalfHr), firstHalfHr), R(100))
             ELSE Null
        ELSE Null

aerobicDecouplingOf(hr, velocity, len) ==
    LET midpoint == len \div 2
        p1 == Slice(velocity, 0, midpoint)
        p2 == SliceFrom(velocity, midpoint)
        h1 == Slice(hr, 0, midpoint)
        h2 == SliceFrom(hr, midpoint)
        p1Count == Len(p1)
        p2Count == Len(p2)
        firstHalfPace == RDiv(R(SumInt(p1)), R(p1Count))
        secondHalfPace == RDiv(R(SumInt(p2)), R(p2Count))
        firstHalfHr == RDiv(R(SumInt(h1)), R(p1Count))
        secondHalfHr == RDiv(R(SumInt(h2)), R(p2Count))
        paceRatio == RDiv(secondHalfPace, firstHalfPace)
        hrRatio == RDiv(secondHalfHr, firstHalfHr)
    IN  IF midpoint > 0
        THEN IF RGt(firstHalfPace, R(0)) /\ RGt(firstHalfHr, R(0))
             THEN IF RGt(hrRatio, R(0))
                  THEN RMul(RSub(RDiv(paceRatio, hrRatio), R(1)), R(100))
                  ELSE Null
             ELSE Null
        ELSE Null

\* (a zone without samples gives pace 0)
mafPaceOrZero(inZonePaceSum, inZoneCount, avgPace) ==
    IF inZoneCount > 0 THEN RDiv(inZonePaceSum, R(inZoneCount)) ELSE R(0)

\* mafPace = inZoneCount > 0 ? inZonePaceSum / inZoneCount : avgPace
mafPaceOf(inZonePaceSum, inZoneCount, avgPace) ==
    IF inZoneCount > 0 THEN RDiv(inZonePaceSum, R(inZoneCount)) ELSE avgPace

analyzeActivity(activity, streams, mafHr, mafZoneLow, mafZoneHigh, qualifyingTolerance, units, excluded) ==
    LET avgPace == IF activity.average_speed > 0
                   THEN velocityToPace(activity.average_speed, units)
                   ELSE R(0)
        ef == computeEF(activity.average_speed, OrZero(activity.average_heartrate))
        qualifyingHigh == mafZoneHigh + qualifyingTolerance
        withStreams == hasStreams(streams)
        hr == IF withStreams THEN streams[1].heartrate[1] ELSE <<>>
        velocity == IF withStreams THEN streams[1].velocity_smooth[1] ELSE <<>>
        cadence == IF withStreams THEN streams[1].cadence ELSE Null
        len == streamLen(hr, velocity)
        inZoneCount ==
            Cardinality({i \in 1..len : inZone(hr[i], mafZoneLow, mafZoneHigh)})
        inQualifyingCount ==
            Cardinality({i \in 1..len : inZone(hr[i], mafZoneLow, qualifyingHigh)})
        inZonePaceSum ==
            SumRat([i \in 1..len |->
                IF inZone(hr[i], mafZoneLow, mafZoneHigh) /\ velocity[i] > 0
                THEN velocityToPace(velocity[i], units) ELSE R(0)])
        inZoneCadenceSum ==
            SumInt([i \in 1..len |->
                IF inZone(hr[i], mafZoneLow, mafZoneHigh)
                THEN cadenceAt(cadence, i) * 2 ELSE 0])
        inZoneCadenceCount ==
            Cardinality({i \in 1..len :
                inZone(hr[i], mafZoneLow, mafZoneHigh) /\ cadenceAt(cadence, i) > 0})
        avgHr == OrZero(activity.average_heartrate)
        timeInZonePct ==
            IF withStreams THEN zonePct(inZoneCount, len)
            ELSE IF Truthy(activity.average_heartrate)
                 THEN coarsePct(avgHr, mafZoneLow, mafZoneHigh)
                 ELSE R(0)
        timeInQualifyingPct ==
            IF withStreams THEN zonePct(inQualifyingCount, len)
            ELSE IF Truthy(activity.average_heartrate)
                 THEN coarsePct(avgHr, mafZoneLow, qualifyingHigh)
                 ELSE R(0)
        mafPace ==
            IF withStreams THEN mafPaceOf(inZonePaceSum, inZoneCount, avgPace)
            ELSE avgPace
        cadenceInZone ==
            IF withStreams /\ inZoneCadenceCount > 0
            THEN RDiv(R(inZoneCadenceSum), R(inZoneCadenceCount)) ELSE Null
    IN  [ id |-> activity.id,
          date |-> activity.start_date,
          duration_seconds |-> activity.elapsed_time,
          avg_hr |-> avgHr,
          avg_cadence |-> IF Truthy(activity.average_cadence)
                          THEN activity.average_cadence[1] * 2 ELSE 0,
          avg_pace |-> avgPace,
          time_in_maf_zone_pct |-> timeInZonePct,
          time_in_qualifying_zone_pct |-> timeInQualifyingPct,
          maf_pace |-> mafPace,
          cardiac_drift |-> IF withStreams THEN cardiacDriftOf(hr, len) ELSE Null,
          aerobic_decoupling |->
              IF withStreams THEN aerobicDecouplingOf(hr, velocity, len) ELSE Null,
          cadence_in_zone |-> cadenceInZone,
          efficiency_factor |-> ef,
          qualifying |-> isQualifying(excluded, activity.elapsed_time,
                                      timeInQualifyingPct),
          excluded |-> excluded ]

-----------------------------------------------------------------------------
(* The analyzeActivity calls under study: the argument space.              *)

\* Stream lengths: every sample value up to ShortLen, two values beyond.
ShortLen == 2
MaxStreamLen == 5

\* The athlete's zone (age 35, modifier 0): maf_hr 145, zone 140..150.
MafHr == 145
MafZoneLow == 140
MafZoneHigh == 150
Tolerances == {0, 10}
Units == {"km", "mi"}

\* Heart-rate samples around every zone boundary, and a dropped-out sensor (0).
HrSamples == {0, 139, 140, 150, 151, 160, 161}
PaceHrSamples == {0, 140, 161}
VelSamples == {0, 2, 3}

SeqsUpTo(S, n) == UNION {[1..k -> S] : k \in 0..n}
SeqsBetween(S, m, n) == UNION {[1..k -> S] : k \in m..n}

HrStreams == SeqsUpTo(HrSamples, ShortLen)
             \cup SeqsBetween({150, 161}, ShortLen + 1, MaxStreamLen)
SteadyVelocity == {[i \in 1..k |-> 3] : k \in 0..MaxStreamLen}
VelStreams == SeqsUpTo(VelSamples, ShortLen) \cup SteadyVelocity
CadenceStreams == {Null, Some(<<>>), Some(<<85, 0>>)}

StreamSet(hr, vel, cad) == Some([heartrate |-> hr, velocity_smooth |-> vel, cadence |-> cad])

RawActivity(elapsed, speed, avgHr, avgCadence) ==
    [id |-> 1, start_date |-> 0, elapsed_time |-> elapsed, average_speed |-> speed,
     average_heartrate |-> avgHr, average_cadence |-> avgCadence]

Call(activity, streams, tol, units, excluded) ==
    [activity |-> activity, streams |-> streams, mafHr |-> MafHr,
     mafZoneLow |-> MafZoneLow, mafZoneHigh |-> MafZoneHigh,
     qualifyingTolerance |-> tol, units |-> units, excluded |-> excluded]

\* streams with every heart-rate pattern, over a steady velocity
ZoneCalls ==
    {Call(RawActivity(el, 3, Some(145), Some(85)), StreamSet(Some(hr), Some(vel), Null),
          tol, "km", ex) :
        hr \in HrStreams, vel \in SteadyVelocity, el \in {1199, 1200},
        tol \in Tolerances, ex \in BOOLEAN}

\* streams of unequal lengths, with stops, with and without cadence
PaceCalls ==
    {Call(RawActivity(1200, 3, Some(145), Some(85)), StreamSet(Some(hr), Some(vel), cad),
          10, u, FALSE) :
        hr \in SeqsUpTo(PaceHrSamples, ShortLen)
                  \cup SeqsBetween({150}, ShortLen + 1, MaxStreamLen),
        vel \in VelStreams, cad \in CadenceStreams, u \in Units}

\* no stream set, or one without the heart-rate or the velocity stream
PartialStreams ==
    {Null, StreamSet(Some(<<150, 150>>), Null, Null), StreamSet(Null, Some(<<3, 3>>), Null)}
CoarseCalls ==
    {Call(RawActivity(el, sp, hr, cad), st, tol, u, ex) :
        el \in {1199, 1200}, sp \in {0, 3},
        hr \in {Null} \cup {Some(h) : h \in HrSamples \cup {145}},
        cad \in {Null, Some(0), Some(85)}, st \in PartialStreams,
        tol \in Tolerances, u \in Units, ex \in BOOLEAN}

Calls == ZoneCalls \cup PaceCalls \cup CoarseCalls

Idle == [activity |-> RawActivity(0, 0, Null, Null), streams |-> Null, mafHr |-> MafHr,
         mafZoneLow |-> MafZoneLow, mafZoneHigh |-> MafZoneHigh,
         qualifyingTolerance |-> 10, units |-> "km", excluded |-> FALSE]

\* (a split-half computation that cuts the second half out of the heart-rate
\* array with splice, where the code copies it with slice)
spliceSecondHalf(call) ==
    IF hasStreams(call.streams)
    THEN LET hr == call.streams[1].heartrate[1]
             midpoint == streamLen(hr, call.streams[1].velocity_smooth[1]) \div 2
         IN  [call EXCEPT !.streams =
                 Some([call.streams[1] EXCEPT !.heartrate = Some(SubSeq(hr, 1, midpoint))])]
    ELSE call

\* (the call returns, having spliced its heart-rate argument)
AnalyzeInPlace ==
    /\ previous = Null
    /\ previous' = analyzed
    /\ analyzed' = Some(analyzeActivity(args.activity, args.streams, args.mafHr,
                                        args.mafZoneLow, args.mafZoneHigh,
                                        args.qualifyingTolerance, args.units,
                                        args.excluded))
    /\ args' = spliceSecondHalf(args)
    /\ UNCHANGED <<pipelineVars, formatVars, dashVars, workerVars>>

\* the call returns; it is made, and then made once more with the same
\* arguments: the code reads them (slice, reduce, indexing) and writes none
Analyze ==
    /\ previous = Null
    /\ previous' = analyzed
    /\ analyzed' = Some(analyzeActivity(args.activity, args.streams, args.mafHr,
                                        args.mafZoneLow, args.mafZoneHigh,
                                        args.qualifyingTolerance, args.units,
                                        args.excluded))
    /\ UNCHANGED <<args, pipelineVars, formatVars, dashVars, workerVars>>

InitAnalyze ==
    /\ args \in Calls
    /\ analyzed = Null
    /\ previous = Null
    /\ pool = {}
    /\ activities = <<>>
    /\ now = 0
    /\ trends = <<>>
    /\ summary = Null
    /\ summaryAt = 0
    /\ advice = Null
    /\ adviceAt = 0
    /\ shown = NothingShown
    /\ text = Null
    /\ NoDashboard
    /\ NoWorker

NextAnalyze == Analyze

SpecAnalyze == InitAnalyze /\ [][NextAnalyze]_vars

-----------------------------------------------------------------------------
(* Claims about analyzeActivity, under SpecAnalyze.                        *)

Returned == analyzed # Null
Result == analyzed[1]
BothStreams ==
    /\ args.streams # Null
    /\ args.streams[1].heartrate # Null
    /\ args.streams[1].velocity_smooth # Null
ArgHr == args.streams[1].heartrate[1]
ArgVelocity == args.streams[1].velocity_smooth[1]
ArgLen == IF Len(ArgHr) < Len(ArgVelocity) THEN Len(ArgHr) ELSE Len(ArgVelocity)
ArgQualifyingHigh == args.mafZoneHigh + args.qualifyingTolerance

\* a percentage p (a rational) is at least k
PctAtLeast(p, k) == p[1] >= k * p[2]

\* C1: the returned record has qualifying = TRUE exactly when the activity is
\* not excluded, its elapsed time is at least 1200 s and its
\* time_in_qualifying_zone_pct is at least 60; so 1200 s at exactly 60% qualifies
\* and 1199 s never does.
C1_QualifyingExactly ==
    Returned =>
        /\ Result.qualifying <=>
              (/\ ~args.excluded
               /\ args.activity.elapsed_time >= 1200
               /\ PctAtLeast(Result.time_in_qualifying_zone_pct, 60))
        /\ args.activity.elapsed_time = 1199 => ~Result.qualifying

C1_Witness ==
    /\ Returned
    /\ args.activity.elapsed_time = 1200
    /\ Result.time_in_qualifying_zone_pct = <<60, 1>>
    /\ Result.qualifying

\* the samples 1..ArgLen with low <= hr <= high
CountIn(low, high) ==
    Cardinality({i \in 1..ArgLen : low <= ArgHr[i] /\ ArgHr[i] <= high})

\* C2: with both streams present and len = min(|hr|, |velocity|),
\* time_in_maf_zone_pct = 100 * #{i < len : zoneLow <= hr[i] <= zoneHigh} / len and
\* time_in_qualifying_zone_pct likewise up to zoneHigh + tolerance, the intervals
\* closed (both are 0 when len = 0).
C2_ZonePercentages ==
    (Returned /\ BothStreams) =>
        LET z == Result.time_in_maf_zone_pct
            q == Result.time_in_qualifying_zone_pct
        IN  /\ z[1] * ArgLen = 100 * CountIn(args.mafZoneLow, args.mafZoneHigh) * z[2]
            /\ q[1] * ArgLen = 100 * CountIn(args.mafZoneLow, ArgQualifyingHigh) * q[2]
            /\ ArgLen = 0 => (z = <<0, 1>> /\ q = <<0, 1>>)

\* both boundary values sampled, and both counted
C2_Witness ==
    /\ Returned
    /\ BothStreams
    /\ ArgLen = 2
    /\ ArgHr[1] = args.mafZoneLow
    /\ ArgHr[2] = args.mafZoneHigh
    /\ Result.time_in_maf_zone_pct = <<100, 1>>

AvgHrIn(low, high) ==
    /\ args.activity.average_heartrate # Null
    /\ low <= args.activity.average_heartrate[1]
    /\ args.activity.average_heartrate[1] <= high
AvgHrKnown ==
    args.activity.average_heartrate # Null /\ args.activity.average_heartrate[1] # 0
NoMetrics ==
    /\ Result.cardiac_drift = <<>>
    /\ Result.aerobic_decoupling = <<>>
    /\ Result.cadence_in_zone = <<>>

\* C3 as claimed: without a stream set, time_in_maf_zone_pct is 75 when the
\* average heart rate lies in the zone and 25 otherwise, likewise and independently
\* for the qualifying zone, and drift, decoupling and cadence_in_zone are null.
C3_CoarseAlways ==
    (Returned /\ args.streams = <<>>) =>
        /\ Result.time_in_maf_zone_pct =
              (IF AvgHrIn(args.mafZoneLow, args.mafZoneHigh) THEN <<75, 1>> ELSE <<25, 1>>)
        /\ Result.time_in_qualifying_zone_pct =
              (IF AvgHrIn(args.mafZoneLow, ArgQualifyingHigh) THEN <<75, 1>> ELSE <<25, 1>>)
        /\ NoMetrics

\* C3 amended: the 75/25 rule applies when the activity carries a non-zero
\* average heart rate; when that is absent or 0 both percentages are 0.  Drift,
\* decoupling and cadence_in_zone are null either way.
C3_CoarseWhenHrKnown ==
    (Returned /\ args.streams = <<>>) =>
        /\ AvgHrKnown =>
              /\ Result.time_in_maf_zone_pct =
                    (IF AvgHrIn(args.mafZoneLow, args.mafZoneHigh)
                     THEN <<75, 1>> ELSE <<25, 1>>)
              /\ Result.time_in_qualifying_zone_pct =
                    (IF AvgHrIn(args.mafZoneLow, ArgQualifyingHigh)
                     THEN <<75, 1>> ELSE <<25, 1>>)
        /\ ~AvgHrKnown =>
              /\ Result.time_in_maf_zone_pct = <<0, 1>>
              /\ Result.time_in_qualifying_zone_pct = <<0, 1>>
        /\ NoMetrics

\* the two rules applied independently: outside the zone, inside the wider one
C3_Witness ==
    /\ Returned
    /\ args.streams = <<>>
    /\ args.activity.average_heartrate = <<160>>
    /\ Result.time_in_maf_zone_pct = <<25, 1>>
    /\ Result.time_in_qualifying_zone_pct = <<75, 1>>

\* the stream set with heart rate and velocity cut to the first ArgLen samples
TruncatedStreams ==
    <<[args.streams[1] EXCEPT !.heartrate = <<SubSeq(ArgHr, 1, ArgLen)>>,
                              !.velocity_smooth = <<SubSeq(ArgVelocity, 1, ArgLen)>>]>>

\* C4: the record returned for a pair of streams equals the record returned for
\* the same call with both streams first cut to len = min(|hr|, |velocity|):
\* samples at index >= len influence no output field.
C4_TruncationInvisible ==
    (Returned /\ BothStreams) =>
        Result = analyzeActivity(args.activity, TruncatedStreams, args.mafHr,
                                 args.mafZoneLow, args.mafZoneHigh,
                                 args.qualifyingTolerance, args.units, args.excluded)

-----------------------------------------------------------------------------
(* lib/mafAnalysis: computeTrends.                                         *)

\* Timestamps count ticks; a day has TicksPerDay of them.
TicksPerDay == 2
Days(n) == n * TicksPerDay

\* Array.sort with (a, b) => time(a.date) - time(b.date): stable, ascending
RECURSIVE InsertAsc(_, _)
InsertAsc(x, t) ==
    IF t = <<>> THEN <<x>>
    ELSE IF x.date <= Head(t).date THEN <<x>> \o t
    ELSE <<Head(t)>> \o InsertAsc(x, Tail(t))

\* (no sort: the order of the input kept)
SortNone(s) == s

RECURSIVE SortAsc(_)
SortAsc(s) == IF s = <<>> THEN <<>> ELSE InsertAsc(Head(s), SortAsc(Tail(s)))

\* Array.sort with (a, b) => time(b.date) - time(a.date): stable, descending
RECURSIVE InsertDesc(_, _)
InsertDesc(x, t) ==
    IF t = <<>> THEN <<x>>
    ELSE IF x.date >= Head(t).date THEN <<x>> \o t
    ELSE <<Head(t)>> \o InsertDesc(x, Tail(t))

RECURSIVE SortDesc(_)
SortDesc(s) == IF s = <<>> THEN <<>> ELSE InsertDesc(Head(s), SortDesc(Tail(s)))

\* (no filter: the excluded runs stay in)
IncludedAll(acts) == acts

\* activities.filter((a) => !a.excluded)
Included(acts) == SelectSeq(acts, LAMBDA a : ~a.excluded)

\* values.reduce(sum) / values.length, for a non-empty sequence of rationals
Mean(values) == RDiv(SumRat(values), R(Len(values)))

Column(acts, Field(_)) == [k \in 1..Len(acts) |-> Field(acts[k])]

\* (a window cut at whole days: the time of day dropped from both dates)
trendWindowByDay(included, i) ==
    SelectSeq(SubSeq(included, 1, i),
              LAMBDA w : w.date \div TicksPerDay >= (included[i].date \div TicksPerDay) - 28)

\* (a window that leaves out the activity exactly 28 days earlier)
trendWindowOpen(included, i) ==
    SelectSeq(SubSeq(included, 1, i), LAMBDA w : w.date > included[i].date - Days(28))

\* (a window counted back from the clock instead of from the activity)
trendWindowFromNow(included, i) ==
    SelectSeq(SubSeq(included, 1, i), LAMBDA w : w.date >= now - Days(28))

\* included.filter((w, wi) => wi <= i && time(w.date) >= fourWeeksAgo); i is 1-based
trendWindow(included, i) ==
    LET fourWeeksAgo == included[i].date - Days(28)
    IN  SelectSeq(SubSeq(included, 1, i), LAMBDA w : w.date >= fourWeeksAgo)

\* (a rolling mean emitted from a single sample on)
rollingFromOne(values) == IF Len(values) >= 1 THEN Mean(values) ELSE <<>>

\* window.length >= 2 ? mean : null
rolling(values) == IF Len(values) >= 2 THEN Mean(values) ELSE Null

computeTrends(acts) ==
    LET included == SortAsc(Included(acts))
        point(i) ==
            LET a == included[i]
                window == trendWindow(included, i)
                cadenceWindow == SelectSeq(window, LAMBDA w : w.cadence_in_zone # Null)
                decouplingWindow == SelectSeq(window, LAMBDA w : w.aerobic_decoupling # Null)
            IN  [ date |-> a.date,
                  avgHr |-> a.avg_hr,
                  rollingHr |-> rolling(Column(window, LAMBDA w : R(w.avg_hr))),
                  mafPace |-> a.maf_pace,
                  rollingMafPace |-> rolling(Column(window, LAMBDA w : w.maf_pace)),
                  ef |-> a.efficiency_factor,
                  rollingEf |-> rolling(Column(window, LAMBDA w : w.efficiency_factor)),
                  cadence |-> a.cadence_in_zone,
                  rollingCadence |->
                      rolling(Column(cadenceWindow, LAMBDA w : w.cadence_in_zone)),
                  decoupling |-> a.aerobic_decoupling,
                  rollingDecoupling |->
                      rolling(Column(decouplingWindow, LAMBDA w : w.aerobic_decoupling)),
                  timeInZonePct |-> a.time_in_maf_zone_pct,
                  qualifying |-> a.qualifying ]
    IN  [i \in 1..Len(included) |-> point(i)]

-----------------------------------------------------------------------------
(* lib/mafAnalysis: computeSummary.  It reads the clock (Date.now()).      *)

\* points are <<x, y>> pairs of rationals
linearSlope(points) ==
    LET n == Len(points)
        sumX == SumRat([k \in 1..n |-> points[k][1]])
        sumY == SumRat([k \in 1..n |-> points[k][2]])
        sumXY == SumRat([k \in 1..n |-> RMul(points[k][1], points[k][2])])
        sumXX == SumRat([k \in 1..n |-> RMul(points[k][1], points[k][1])])
        denom == RSub(RMul(R(n), sumXX), RMul(sumX, sumX))
    IN  IF n < 2 THEN R(0)
        ELSE IF denom # R(0)
             THEN RDiv(RSub(RMul(R(n), sumXY), RMul(sumX, sumY)), denom)
             ELSE R(0)

\* (the sign convention reversed: a rising heart rate read as improvement)
hrDirectionReversed(slope) ==
    IF RGt(slope, <<3, 10>>) THEN "improving"
    ELSE IF RLt(slope, <<-3, 10>>) THEN "regressing"
    ELSE "plateau"

\* < -0.3 improving, > 0.3 regressing, else plateau
hrDirection(slope) ==
    IF RLt(slope, <<-3, 10>>) THEN "improving"
    ELSE IF RGt(slope, <<3, 10>>) THEN "regressing"
    ELSE "plateau"

\* on seconds per week: < -1 improving, > 1 regressing, else plateau
paceDirection(slope) ==
    IF RLt(slope, R(-1)) THEN "improving"
    ELSE IF RGt(slope, R(1)) THEN "regressing"
    ELSE "plateau"

\* > 0.01 improving, < -0.01 regressing, else plateau
efDirection(slope) ==
    IF RGt(slope, <<1, 100>>) THEN "improving"
    ELSE IF RLt(slope, <<-1, 100>>) THEN "regressing"
    ELSE "plateau"

\* (no early return: zeros where the values are unknown, the trends read as flat)
EmptySummaryOfZeros ==
    [ currentAvgHr |-> R(0), hrTrendDirection |-> "plateau", hrTrendSlope |-> R(0),
      zoneDiscipline |-> R(0), currentMafPace |-> R(0),
      paceTrendDirection |-> "plateau", paceTrendSlope |-> R(0),
      currentEf |-> R(0), efTrendDirection |-> "plateau",
      avgDecoupling |-> Null, avgCadence |-> Null,
      totalRuns |-> 0, totalQualifyingRuns |-> 0, qualifyingPct |-> R(0) ]

\* the summary returned when no activity is included
EmptySummary ==
    [ currentAvgHr |-> Null, hrTrendDirection |-> "insufficient", hrTrendSlope |-> Null,
      zoneDiscipline |-> Null, currentMafPace |-> Null,
      paceTrendDirection |-> "insufficient", paceTrendSlope |-> Null,
      currentEf |-> Null, efTrendDirection |-> "insufficient",
      avgDecoupling |-> Null, avgCadence |-> Null,
      totalRuns |-> 0, totalQualifyingRuns |-> 0, qualifyingPct |-> R(0) ]

\* (the share as a fraction of 1)
qualifyingShare(qualifyingRuns, totalRuns) ==
    IF totalRuns > 0 THEN RDiv(R(qualifyingRuns), R(totalRuns)) ELSE R(0)

\* included.length > 0 ? (qualifying.length / included.length) * 100 : 0
qualifyingPctOf(qualifyingRuns, totalRuns) ==
    IF totalRuns > 0 THEN RMul(RDiv(R(qualifyingRuns), R(totalRuns)), R(100)) ELSE R(0)

\* (every included activity taken as qualifying)
qualifyingOfAll(included) == included

\* included.filter((a) => a.qualifying)
qualifyingOf(included) == SelectSeq(included, LAMBDA a : a.qualifying)

\* (the latest activity's value, whatever the trailing 4 weeks hold)
currentValueLatest(recentValues, lastValue) == lastValue

\* recent.length > 0 ? mean over recent : the value of sorted[sorted.length - 1]
currentValue(recentValues, lastValue) ==
    IF Len(recentValues) > 0 THEN Mean(recentValues) ELSE lastValue

computeSummary(acts) ==
    LET included == Included(acts)
        qualifying == qualifyingOf(included)
        sorted == SortAsc(included)
        fourWeeksAgo == now - Days(28)
        eightWeeksAgo == now - Days(56)
        recent == SelectSeq(sorted, LAMBDA a : a.date >= fourWeeksAgo)
        window == SelectSeq(sorted, LAMBDA a : a.date >= eightWeeksAgo)
        last == sorted[Len(sorted)]
        current(Field(_)) == currentValue(Column(recent, Field), Field(last))
        enough == Len(window) >= 3
        baseTime == window[1].date
        toWeeks(d) == Norm(d - baseTime, Days(7))
        slopeOf(Field(_)) ==
            linearSlope([k \in 1..Len(window) |->
                            <<toWeeks(window[k].date), Field(window[k])>>])
        hrTrendSlope == slopeOf(LAMBDA a : R(a.avg_hr))
        paceTrendSlope == RMul(slopeOf(LAMBDA a : a.maf_pace), R(60))
        efSlope == slopeOf(LAMBDA a : a.efficiency_factor)
        withDecoupling == SelectSeq(qualifying, LAMBDA a : a.aerobic_decoupling # Null)
        withCadence == SelectSeq(qualifying, LAMBDA a : a.cadence_in_zone # Null)
    IN  IF Len(included) = 0 THEN EmptySummary
        ELSE
        [ currentAvgHr |-> current(LAMBDA a : R(a.avg_hr)),
          hrTrendDirection |-> IF enough THEN hrDirection(hrTrendSlope) ELSE "insufficient",
          hrTrendSlope |-> IF enough THEN hrTrendSlope ELSE Null,
          zoneDiscipline |-> Mean(Column(included, LAMBDA a : a.time_in_maf_zone_pct)),
          currentMafPace |-> current(LAMBDA a : a.maf_pace),
          paceTrendDirection |->
              IF enough THEN paceDirection(paceTrendSlope) ELSE "insufficient",
          paceTrendSlope |-> IF enough THEN paceTrendSlope ELSE Null,
          currentEf |-> current(LAMBDA a : a.efficiency_factor),
          efTrendDirection |-> IF enough THEN efDirection(efSlope) ELSE "insufficient",
          avgDecoupling |->
              IF Len(withDecoupling) > 0
              THEN Mean(Column(withDecoupling, LAMBDA a : a.aerobic_decoupling))
              ELSE Null,
          avgCadence |->
              IF Len(withCadence) > 0
              THEN Mean(Column(withCadence, LAMBDA a : a.cadence_in_zone))
              ELSE Null,
          totalRuns |-> Len(included),
          totalQualifyingRuns |-> Len(qualifying),
          qualifyingPct |-> qualifyingPctOf(Len(qualifying), Len(included)) ]

-----------------------------------------------------------------------------
(* RunAdvisor: generateAdvice.  It reads the clock (Date.now()).           *)

\* summary.zoneDiscipline || 0 (null and 0 both give 0)
ROrZero(x) == IF x = Null THEN R(0) ELSE x

\* Math.max(...values), for a non-empty sequence of integers
MaxOf(values) == CHOOSE v \in {values[k] : k \in 1..Len(values)} :
                    \A k \in 1..Len(values) : values[k] <= v

\* (the minutes cut off instead of rounded)
suggestedDurationCut(longestRecent) ==
    IF longestRecent > 0 THEN longestRecent \div 60 + 10 ELSE 50

\* longestRecent > 0 ? Math.round(longestRecent / 60) + 10 : 50
suggestedDurationOf(longestRecent) ==
    IF longestRecent > 0 THEN RRound(Norm(longestRecent, 60)) + 10 ELSE 50

\* what generateAdvice derives before it chooses
adviceFacts(summ, acts, mafHr) ==
    LET sorted == SortDesc(acts)
        sevenDaysAgo == now - Days(7)
        recentRuns == SelectSeq(acts, LAMBDA a : a.date >= sevenDaysAgo)
        longestRecent ==
            IF Len(recentRuns) > 0
            THEN MaxOf([k \in 1..Len(recentRuns) |-> recentRuns[k].duration_seconds])
            ELSE 0
    IN  [ daysSinceLastRun |->
              IF Len(sorted) > 0 THEN (now - sorted[1].date) \div Days(1) ELSE 999,
          weeklyCount |-> Len(recentRuns),
          avgZoneDiscipline |-> ROrZero(summ.zoneDiscipline),
          avgCadence |-> ROrZero(summ.avgCadence),
          avgDecoupling |-> ROrZero(summ.avgDecoupling),
          hrDeviation |->
              IF summ.currentAvgHr # Null THEN RSub(summ.currentAvgHr, R(mafHr)) ELSE R(0),
          hrTrendDirection |-> summ.hrTrendDirection,
          suggestedDuration |-> suggestedDurationOf(longestRecent) ]

\* (the heart-rate rule tried before the consistency rule)
selectRuleHrFirst(f) ==
    IF RGt(f.hrDeviation, <<5, 1>>) THEN 2
    ELSE IF f.daysSinceLastRun >= 3 THEN 1
    ELSE IF RLt(f.avgZoneDiscipline, <<60, 1>>) THEN 3
    ELSE IF f.hrTrendDirection = "regressing" THEN 4
    ELSE IF RGt(f.avgCadence, <<0, 1>>) /\ RLt(f.avgCadence, <<170, 1>>) THEN 5
    ELSE IF f.weeklyCount < 3 /\ f.hrTrendDirection = "plateau" THEN 6
    ELSE IF f.hrTrendDirection = "improving" /\ RLt(f.avgDecoupling, <<5, 1>>) THEN 7
    ELSE IF f.hrTrendDirection = "improving" THEN 8
    ELSE 9

\* (the consistency rule waiting for 10 days without a run)
selectRuleAfterTenDays(f) ==
    IF f.daysSinceLastRun >= 10 THEN 1
    ELSE IF RGt(f.hrDeviation, R(5)) THEN 2
    ELSE IF RLt(f.avgZoneDiscipline, R(60)) THEN 3
    ELSE IF f.hrTrendDirection = "regressing" THEN 4
    ELSE IF RGt(f.avgCadence, R(0)) /\ RLt(f.avgCadence, R(170)) THEN 5
    ELSE IF f.weeklyCount < 3 /\ f.hrTrendDirection = "plateau" THEN 6
    ELSE IF f.hrTrendDirection = "improving" /\ RLt(f.avgDecoupling, R(5)) THEN 7
    ELSE IF f.hrTrendDirection = "improving" THEN 8
    ELSE 9

\* the cascade of early returns, by priority
selectRule(f) ==
    IF f.daysSinceLastRun >= 3 THEN 1
    ELSE IF RGt(f.hrDeviation, R(5)) THEN 2
    ELSE IF RLt(f.avgZoneDiscipline, R(60)) THEN 3
    ELSE IF f.hrTrendDirection = "regressing" THEN 4
    ELSE IF RGt(f.avgCadence, R(0)) /\ RLt(f.avgCadence, R(170)) THEN 5
    ELSE IF f.weeklyCount < 3 /\ f.hrTrendDirection = "plateau" THEN 6
    ELSE IF f.hrTrendDirection = "improving" /\ RLt(f.avgDecoupling, R(5)) THEN 7
    ELSE IF f.hrTrendDirection = "improving" THEN 8
    ELSE 9

\* the advice each return statement builds; figure is the number its body quotes
adviceOf(rule, f) ==
    CASE rule = 1 -> [ headline |-> "Time to Run!", focus |-> "Consistency",
                       color |-> "border-yellow-500", figure |-> Some(f.daysSinceLastRun) ]
      [] rule = 2 -> [ headline |-> "Bring Your Heart Rate Down", focus |-> "HR Control",
                       color |-> "border-red-500", figure |-> Some(RRound(f.hrDeviation)) ]
      [] rule = 3 -> [ headline |-> "Stay in the Zone", focus |-> "Zone Discipline",
                       color |-> "border-red-500",
                       figure |-> Some(RRound(f.avgZoneDiscipline)) ]
      [] rule = 4 -> [ headline |-> "Recovery Week", focus |-> "Recovery",
                       color |-> "border-red-500", figure |-> Null ]
      [] rule = 5 -> [ headline |-> "Work on Cadence", focus |-> "Cadence",
                       color |-> "border-yellow-500", figure |-> Some(RRound(f.avgCadence)) ]
      [] rule = 6 -> [ headline |-> "Add Another Run", focus |-> "Volume",
                       color |-> "border-yellow-500", figure |-> Some(f.weeklyCount) ]
      [] rule = 7 -> [ headline |-> "Extend Your Long Run", focus |-> "Duration",
                       color |-> "border-green-500", figure |-> Some(f.suggestedDuration) ]
      [] rule = 8 -> [ headline |-> "Keep It Up!", focus |-> "Consistency",
                       color |-> "border-green-500", figure |-> Null ]
      [] OTHER    -> [ headline |-> "Stay Consistent", focus |-> "Consistency",
                       color |-> "border-gray-500", figure |-> Null ]

generateAdvice(summ, acts, mafHr, mafZoneLow, mafZoneHigh, units) ==
    LET f == adviceFacts(summ, acts, mafHr)
    IN  adviceOf(selectRule(f), f)

-----------------------------------------------------------------------------
(* The Dashboard hands one activity list to computeTrends, computeSummary  *)
(* and, with the summary, to the RunAdvisor.                               *)

MaxActs == 4
MaxElapsed == 1
Start == Days(60)

\* an analyzed activity of the cache: analyzeActivity on a raw run of the athlete
Run(id, date, hr, speed, elapsed, streams, excluded) ==
    analyzeActivity([id |-> id, start_date |-> date, elapsed_time |-> elapsed,
                     average_speed |-> speed, average_heartrate |-> Some(hr),
                     average_cadence |-> Null],
                    streams, MafHr, MafZoneLow, MafZoneHigh, 10, "km", excluded)

Ids(acts) == {acts[k].id : k \in 1..Len(acts)}

\* the RunAdvisor is rendered when there is a summary and an activity
renderAdvice(summ, acts) ==
    IF summ # Null /\ Len(acts) > 0
    THEN Some(generateAdvice(summ[1], acts, MafHr, MafZoneLow, MafZoneHigh, "km"))
    ELSE Null

\* everything derived from the list, recomputed at the current clock reading
Recomputed(acts) ==
    \E summ \in {IF Len(acts) > 0 THEN Some(computeSummary(acts)) ELSE Null} :
        /\ trends' = computeTrends(acts)
        /\ summary' = summ
        /\ summaryAt' = now
        /\ advice' = renderAdvice(summ, acts)
        /\ adviceAt' = now

\* a sync brings one more run of the athlete; the list is replaced, all is recomputed
Load(a) ==
    /\ Len(activities) < MaxActs
    /\ a.id \notin Ids(activities)
    /\ activities' = Append(activities, a)
    /\ Recomputed(Append(activities, a))
    /\ UNCHANGED <<analyzerVars, formatVars, dashVars, workerVars, pool, now>>

\* (a sync whose recomputation sorts the list it was handed in place)
ResyncSorting ==
    /\ summaryAt < now
    /\ activities' = SortAsc(activities)
    /\ Recomputed(activities)
    /\ UNCHANGED <<analyzerVars, formatVars, dashVars, workerVars, pool, now>>

\* a sync that brings nothing new: the same list, recomputed
Resync ==
    /\ summaryAt < now
    /\ Recomputed(activities)
    /\ UNCHANGED <<analyzerVars, formatVars, dashVars, workerVars, pool, activities, now>>

\* the RunAdvisor renders again with the summary it is handed
RenderAdvisor ==
    /\ adviceAt < now
    /\ advice # Null
    /\ advice' = renderAdvice(summary, activities)
    /\ adviceAt' = now
    /\ UNCHANGED <<analyzerVars, formatVars, dashVars, workerVars, pool, activities, now, trends, summary, summaryAt>>

\* time passes
Tick ==
    /\ now < Start + MaxElapsed
    /\ now' = now + 1
    /\ UNCHANGED <<analyzerVars, formatVars, dashVars, workerVars, pool, activities, trends, summary, summaryAt, advice, adviceAt>>

InitPipeline(runs) ==
    /\ args = Idle
    /\ analyzed = Null
    /\ previous = Null
    /\ pool = runs
    /\ activities = <<>>
    /\ now = Start
    /\ trends = <<>>
    /\ summary = Null
    /\ summaryAt = Start
    /\ advice = Null
    /\ adviceAt = Start
    /\ shown = NothingShown
    /\ text = Null
    /\ NoDashboard
    /\ NoWorker

Next ==
    \/ \E a \in pool : Load(a)
    \/ Resync
    \/ RenderAdvisor
    \/ Tick

NoStreams == Null
Streams(hr, vel, cad) == StreamSet(Some(hr), Some(vel), Some(cad))

\* runs for the trend builder: 28 days apart to the tick, a tie, an excluded run
TrendRuns ==
    { Run(1, Days(0), 150, 3, 1800, NoStreams, FALSE),
      Run(2, Days(10), 140, 3, 1800, NoStreams, FALSE),
      Run(3, Days(35), 130, 0, 1800, NoStreams, FALSE),
      Run(4, Days(7), 145, 0, 1800, NoStreams, FALSE),
      Run(5, Days(35) + 1, 155, 0, 1800, NoStreams, FALSE),
      Run(6, Days(35), 160, 3, 1800, Streams(<<150, 150>>, <<3, 3>>, <<85, 85>>), FALSE),
      Run(7, Days(30), 150, 3, 1800, Streams(<<150, 140>>, <<3, 2>>, <<90, 90>>), FALSE),
      Run(8, Days(20), 100, 3, 1800, NoStreams, TRUE) }

SpecTrend == InitPipeline(TrendRuns) /\ [][Next]_vars

\* runs for the summary: around the 8-week and 4-week cuts of the clock's
\* first reading (day 60), heart rates falling slowly, fast, and rising
SummaryRuns ==
    { Run(1, Days(4), 143, 0, 1800, NoStreams, FALSE),
      Run(2, Days(5), 142, 0, 1800, NoStreams, FALSE),
      Run(3, Days(57) + 1, 141, 0, 1800, NoStreams, FALSE),
      Run(4, Days(60), 140, 3, 1800, Streams(<<140, 150>>, <<3, 3>>, <<80, 80>>), FALSE),
      Run(5, Days(32), 130, 3, 1000, Streams(<<150, 140>>, <<3, 2>>, <<90, 90>>), FALSE),
      Run(6, Days(58), 120, 3, 1800, Streams(<<150, 150>>, <<3, 3>>, <<85, 85>>), FALSE),
      Run(7, Days(50), 170, 0, 1800, NoStreams, TRUE) }

SpecSummary == InitPipeline(SummaryRuns) /\ [][Next]_vars

\* runs for the advisor: one for each rule of the cascade to decide
AdviceRuns ==
    { Run(1, Days(55), 170, 0, 1800, NoStreams, FALSE),
      Run(2, Days(59), 145, 0, 3000, NoStreams, FALSE),
      Run(3, Days(45), 150, 0, 1800, NoStreams, FALSE),
      Run(4, Days(52), 147, 0, 1800, NoStreams, FALSE),
      Run(5, Days(59) + 1, 144, 3, 2400, Streams(<<145, 145>>, <<2, 3>>, <<90, 90>>), FALSE),
      Run(6, Days(58) + 1, 144, 3, 1800, Streams(<<145, 145>>, <<3, 3>>, <<80, 80>>), FALSE),
      Run(7, Days(45), 140, 0, 1800, NoStreams, FALSE),
      Run(8, Days(59), 139, 0, 3030, NoStreams, FALSE),
      Run(9, Days(58), 145, 0, 1800, NoStreams, TRUE),
      Run(10, Days(59), 144, 0, 0, NoStreams, FALSE) }

SpecAdvice == InitPipeline(AdviceRuns) /\ [][Next]_vars


-----------------------------------------------------------------------------
(* The advisory selector's cascade.                                        *)

\* what the advisor was handed at its last rendering, and when
Rendered == advice # Null
HandedSummary == summary[1]
LastRunDate == MaxOf([k \in 1..Len(activities) |-> activities[k].date])
DaysSinceLastRun == (adviceAt - LastRunDate) \div TicksPerDay
RunsInTrailingWeek ==
    Cardinality({k \in 1..Len(activities) : activities[k].date >= adviceAt - 7 * TicksPerDay})

\* an aggregate that is not known counts as 0
KnownOrZero(x) == IF x = <<>> THEN <<0, 1>> ELSE x

HrExcess ==
    IF HandedSummary.currentAvgHr = <<>> THEN <<0, 1>>
    ELSE RSub(HandedSummary.currentAvgHr, <<MafHr, 1>>)

\* the nine conditions, in the order of the cascade
RuleMatches(k) ==
    CASE k = 1 -> DaysSinceLastRun >= 3
      [] k = 2 -> RGt(HrExcess, <<5, 1>>)
      [] k = 3 -> RLt(KnownOrZero(HandedSummary.zoneDiscipline), <<60, 1>>)
      [] k = 4 -> HandedSummary.hrTrendDirection = "regressing"
      [] k = 5 -> /\ HandedSummary.avgCadence # <<>>
                  /\ RLt(HandedSummary.avgCadence, <<170, 1>>)
      [] k = 6 -> /\ RunsInTrailingWeek < 3
                  /\ HandedSummary.hrTrendDirection = "plateau"
      [] k = 7 -> /\ HandedSummary.hrTrendDirection = "improving"
                  /\ RLt(KnownOrZero(HandedSummary.avgDecoupling), <<5, 1>>)
      [] k = 8 -> HandedSummary.hrTrendDirection = "improving"
      [] OTHER -> TRUE

FirstMatch == CHOOSE k \in 1..9 : RuleMatches(k) /\ \A j \in 1..(k - 1) : ~RuleMatches(j)

Headlines ==
    << "Time to Run!", "Bring Your Heart Rate Down", "Stay in the Zone", "Recovery Week",
       "Work on Cadence", "Add Another Run", "Extend Your Long Run", "Keep It Up!",
       "Stay Consistent" >>

\* C5: the advisor is total and deterministic: whenever it is rendered (a
\* summary and a non-empty list) there is an advice, and it is the advice of
\* the first rule, in the order 1..9, whose condition holds of the summary and
\* list it was handed; with 5 days since the last run that is the
\* consistency-gap advice even when the heart rate also exceeds mafHr by more than 5.
C5_FirstMatchWins ==
    /\ (summary # <<>> /\ Len(activities) > 0) => Rendered
    /\ Rendered => advice[1].headline = Headlines[FirstMatch]
    /\ (Rendered /\ DaysSinceLastRun = 5) =>
            /\ advice[1].headline = "Time to Run!"
            /\ advice[1].focus = "Consistency"

\* one run, five days old, 25 beats over mafHr: rules 1 and 2 both hold
C5_Witness ==
    /\ Rendered
    /\ Len(activities) = 1
    /\ activities[1].avg_hr = 170
    /\ DaysSinceLastRun = 5
    /\ RuleMatches(1) /\ RuleMatches(2)
    /\ advice[1].headline = "Time to Run!"


-----------------------------------------------------------------------------
(* The trend builder's rolling windows.                                    *)

\* the points at index <= i dated no more than 28 days before point i
PointsBefore(i) ==
    SelectSeq(SubSeq(trends, 1, i), LAMBDA p : p.date >= trends[i].date - 28 * TicksPerDay)

\* the mean of two or more values, null of fewer
MeanOfTwoOrMore(values) ==
    IF Len(values) >= 2 THEN RDiv(SumRat(values), <<Len(values), 1>>) ELSE <<>>

Known(values) == SelectSeq(values, LAMBDA v : v # <<>>)

\* what one activity contributes to its trend point
Instant(date, hr, pace, ef, cadence, decoupling) ==
    [date |-> date, hr |-> hr, pace |-> pace, ef |-> ef, cadence |-> cadence,
     decoupling |-> decoupling]
InstantOfPoint(p) == Instant(p.date, p.avgHr, p.mafPace, p.ef, p.cadence, p.decoupling)
InstantOfRun(a) ==
    Instant(a.date, a.avg_hr, a.maf_pace, a.efficiency_factor, a.cadence_in_zone,
            a.aerobic_decoupling)
Times(x, seq) == Cardinality({k \in 1..Len(seq) : seq[k] = x})

\* C6: the trend points are the non-excluded activities in ascending date
\* order; point i's window is the points at index <= i dated >= its date minus
\* 28 days; rollingHr, rollingMafPace and rollingEf are the mean over the
\* window when it has 2 or more members, else null; rollingCadence and
\* rollingDecoupling are the mean over the window's non-null values of that
\* metric when there are 2 or more, else null.
C6_RollingWindows ==
    LET runs == Column(Included(activities), InstantOfRun)
        points == Column(trends, InstantOfPoint)
    IN  /\ Len(trends) = Len(runs)
        /\ \A k \in 1..Len(runs) : Times(runs[k], points) = Times(runs[k], runs)
        /\ \A i \in 1..(Len(trends) - 1) : trends[i].date <= trends[i + 1].date
        /\ \A i \in 1..Len(trends) :
             LET w == PointsBefore(i)
             IN  /\ trends[i].rollingHr =
                        MeanOfTwoOrMore(Column(w, LAMBDA p : <<p.avgHr, 1>>))
                 /\ trends[i].rollingMafPace =
                        MeanOfTwoOrMore(Column(w, LAMBDA p : p.mafPace))
                 /\ trends[i].rollingEf = MeanOfTwoOrMore(Column(w, LAMBDA p : p.ef))
                 /\ trends[i].rollingCadence =
                        MeanOfTwoOrMore(Known(Column(w, LAMBDA p : p.cadence)))
                 /\ trends[i].rollingDecoupling =
                        MeanOfTwoOrMore(Known(Column(w, LAMBDA p : p.decoupling)))

\* days 0, 10 and 35 with heart rates 150, 140, 130, beside an excluded run:
\* rolling heart rate 135 at day 35, 145 at day 10, null at day 0
C6_Witness ==
    /\ Len(activities) = 4
    /\ Len(trends) = 3
    /\ trends[1].date = Days(0) /\ trends[1].avgHr = 150
    /\ trends[2].date = Days(10) /\ trends[2].avgHr = 140
    /\ trends[3].date = Days(35) /\ trends[3].avgHr = 130
    /\ trends[1].rollingHr = <<>>
    /\ trends[2].rollingHr = <<145, 1>>
    /\ trends[3].rollingHr = <<135, 1>>

\* the points dated within the 28 days up to and including point i's timestamp
PointsWithin(i) ==
    SelectSeq(trends, LAMBDA p : /\ p.date >= trends[i].date - 28 * TicksPerDay
                                 /\ p.date <= trends[i].date)

\* C7: every trend point's rolling window holds every non-excluded activity
\* whose timestamp t has d - 28 days <= t <= d, d the point's timestamp: the
\* activity exactly 28 days earlier, and any other activity with timestamp d.
C7_WindowByTimestamp ==
    \A i \in 1..Len(trends) :
        /\ Len(PointsBefore(i)) = Len(PointsWithin(i))
        /\ trends[i].rollingHr =
               MeanOfTwoOrMore(Column(PointsWithin(i), LAMBDA p : <<p.avgHr, 1>>))


-----------------------------------------------------------------------------
(* The summary's trends.                                                   *)

\* the non-excluded activities dated within the 8 weeks before the clock
\* reading t
InTrailingWeeks(n, t) ==
    SelectSeq(Included(activities), LAMBDA a : a.date >= t - n * 7 * TicksPerDay)
TrendWindow == InTrailingWeeks(8, summaryAt)

Earliest(acts) ==
    CHOOSE d \in {acts[k].date : k \in 1..Len(acts)} : \A k \in 1..Len(acts) : d <= acts[k].date

\* elapsed weeks since the earliest activity of the window
Weeks(acts) == [k \in 1..Len(acts) |-> Norm(acts[k].date - Earliest(acts), 7 * TicksPerDay)]

\* the least-squares slope of ys on xs, from the deviations about the means;
\* 0 when the xs do not vary
LeastSquares(xs, ys) ==
    LET n == <<Len(xs), 1>>
        xBar == RDiv(SumRat(xs), n)
        yBar == RDiv(SumRat(ys), n)
        sxy == SumRat([k \in 1..Len(xs) |-> RMul(RSub(xs[k], xBar), RSub(ys[k], yBar))])
        sxx == SumRat([k \in 1..Len(xs) |-> RMul(RSub(xs[k], xBar), RSub(xs[k], xBar))])
    IN  IF sxx = <<0, 1>> THEN <<0, 1>> ELSE RDiv(sxy, sxx)

HrSlope == LeastSquares(Weeks(TrendWindow), Column(TrendWindow, LAMBDA a : <<a.avg_hr, 1>>))
PaceSlope ==
    RMul(LeastSquares(Weeks(TrendWindow), Column(TrendWindow, LAMBDA a : a.maf_pace)),
         <<60, 1>>)
EfSlope == LeastSquares(Weeks(TrendWindow), Column(TrendWindow, LAMBDA a : a.efficiency_factor))

\* a falling value is an improvement beyond the threshold, a rising one a regression
FallingIsGood(slope, threshold) ==
    IF RLt(slope, RNeg(threshold)) THEN "improving"
    ELSE IF RGt(slope, threshold) THEN "regressing"
    ELSE "plateau"

\* C8: the trends are classified over the non-excluded activities of the
\* trailing 8 weeks: fewer than 3 give 'insufficient' three times and null
\* slopes; 3 or more give the least-squares slope on elapsed weeks since the
\* earliest of them (0 on a zero denominator), read as: heart rate < -0.3
\* improving, > 0.3 regressing; pace times 60 < -1 improving, > 1 regressing;
\* efficiency > 0.01 improving, < -0.01 regressing; plateau otherwise.
C8_TrendClassification ==
    summary # <<>> =>
        LET s == summary[1]
        IN  /\ Len(TrendWindow) < 3 =>
                /\ s.hrTrendDirection = "insufficient"
                /\ s.paceTrendDirection = "insufficient"
                /\ s.efTrendDirection = "insufficient"
                /\ s.hrTrendSlope = <<>>
                /\ s.paceTrendSlope = <<>>
            /\ Len(TrendWindow) >= 3 =>
                /\ s.hrTrendSlope = HrSlope
                /\ s.paceTrendSlope = PaceSlope
                /\ s.hrTrendDirection = FallingIsGood(HrSlope, <<3, 10>>)
                /\ s.paceTrendDirection = FallingIsGood(PaceSlope, <<1, 1>>)
                /\ s.efTrendDirection = FallingIsGood(RNeg(EfSlope), <<1, 100>>)

\* four non-excluded runs, the oldest just past the 8 weeks: three classified,
\* the heart rate falling from 142 to 120
C8_Witness ==
    /\ summary # <<>>
    /\ summaryAt = Start + 1
    /\ Len(Included(activities)) = 4
    /\ Len(TrendWindow) = 3
    /\ RLt(HrSlope, <<-3, 10>>)
    /\ summary[1].hrTrendDirection = "improving"
    /\ summary[1].efTrendDirection # "plateau"


\* exactly four non-excluded activities in the trailing 8 weeks, on distinct
\* dates, each later one with a lower average heart rate
FourFalling ==
    /\ summary # <<>>
    /\ Len(TrendWindow) = 4
    /\ \A j, k \in 1..4 :
          /\ j # k => TrendWindow[j].date # TrendWindow[k].date
          /\ TrendWindow[j].date < TrendWindow[k].date =>
                TrendWindow[j].avg_hr > TrendWindow[k].avg_hr

\* C9: four non-excluded activities within the trailing 8 weeks whose average
\* heart rate strictly decreases as the date increases are classified 'improving'.
C9_FallingIsImproving ==
    FourFalling => summary[1].hrTrendDirection = "improving"

\* C9 amended: for such four activities the heart-rate slope is negative and
\* the direction is 'improving' when the slope is below -0.3 beats per week,
\* 'plateau' otherwise; it is never 'regressing' and never 'insufficient'.
C9_FallingNeverRegresses ==
    FourFalling =>
        /\ RLt(summary[1].hrTrendSlope, <<0, 1>>)
        /\ summary[1].hrTrendDirection \in {"improving", "plateau"}
        /\ summary[1].hrTrendDirection = "improving" <=>
               RLt(summary[1].hrTrendSlope, <<-3, 10>>)

\* heart rates 143, 142, 130, 120 over days 4 to 58: improving
C9_Witness ==
    /\ FourFalling
    /\ Column(TrendWindow, LAMBDA a : a.avg_hr) \in
           {<<143, 142, 130, 120>>, <<120, 130, 142, 143>>}
    /\ summary[1].hrTrendDirection = "improving"

-----------------------------------------------------------------------------
(* Results and the clock.                                                  *)

\* what of the list the clock reading t picks out
DatedSince(days, t) ==
    {k \in 1..Len(activities) : activities[k].date >= t - days * TicksPerDay}
WholeDaysSince(t) == (t - LastRunDate) \div TicksPerDay

\* C10: with the same activity list, computeTrends, computeSummary and (with
\* the same summary too) the advisor return the same result at whatever moment
\* they are invoked again.
C10_SameWhenever ==
    [][activities' = activities =>
          /\ trends' = trends
          /\ summary # <<>> => summary' = summary
          /\ (advice # <<>> /\ summary' = summary) => advice' = advice]_vars

\* C10 amended: computeTrends returns the same result for the same list at
\* any moment; computeSummary returns the same result for the same list at
\* two moments that have the same activities in their trailing 4 and 8 weeks;
\* the advisor returns the same advice for the same summary and list at two
\* moments that have the same activities in their trailing 7 days and the same
\* count of whole days since the last run.
C10_SameUpToClock ==
    [][activities' = activities =>
          /\ trends' = trends
          /\ ( /\ summary # <<>>
               /\ DatedSince(28, summaryAt') = DatedSince(28, summaryAt)
               /\ DatedSince(56, summaryAt') = DatedSince(56, summaryAt) )
             => summary' = summary
          /\ ( /\ advice # <<>>
               /\ summary' = summary
               /\ DatedSince(7, adviceAt') = DatedSince(7, adviceAt)
               /\ WholeDaysSince(adviceAt') = WholeDaysSince(adviceAt) )
             => advice' = advice]_vars

\* the advisor rendered again, later than the summary it is handed was
\* computed, over three runs or more
C10_Witness ==
    /\ advice # <<>>
    /\ summaryAt < adviceAt
    /\ Len(activities) >= 3
    /\ trends # <<>>


-----------------------------------------------------------------------------
(* Calling analyzeActivity again.                                          *)

-----------------------------------------------------------------------------
(* Excluded activities.                                                    *)

\* the list with its excluded records removed
WithoutExcluded == SelectSeq(activities, LAMBDA a : a.excluded = FALSE)
SomeExcluded == \E k \in 1..Len(activities) : activities[k].excluded

\* C12: excluded activities influence neither the trends nor the summary:
\* computeTrends and computeSummary return for the list what they return for
\* the list with its excluded records removed (the summary compared at the
\* clock reading it was computed at).
C12_ExcludedInvisible ==
    /\ trends = computeTrends(WithoutExcluded)
    /\ (summary # <<>> /\ summaryAt = now) => summary[1] = computeSummary(WithoutExcluded)

\* an excluded run of heart rate 170 among three classified runs
C12_Witness ==
    /\ SomeExcluded
    /\ Len(WithoutExcluded) = 3
    /\ Len(trends) = 3
    /\ summary # <<>>
    /\ summaryAt = now
    /\ summary[1].totalRuns = 3
    /\ summary[1].hrTrendDirection \in {"improving", "plateau", "regressing"}


-----------------------------------------------------------------------------
(* The trend points.                                                       *)

\* what a trend point carries of its activity
Carried(date, hr, pace, ef, cadence, decoupling, zonePercent, qualifies) ==
    [date |-> date, hr |-> hr, pace |-> pace, ef |-> ef, cadence |-> cadence,
     decoupling |-> decoupling, zonePercent |-> zonePercent, qualifies |-> qualifies]
CarriedByPoint(p) ==
    Carried(p.date, p.avgHr, p.mafPace, p.ef, p.cadence, p.decoupling, p.timeInZonePct,
            p.qualifying)
CarriedFromRun(a) ==
    Carried(a.date, a.avg_hr, a.maf_pace, a.efficiency_factor, a.cadence_in_zone,
            a.aerobic_decoupling, a.time_in_maf_zone_pct, a.qualifying)

\* one point per non-excluded activity, carrying its values, in date order
OnePointPerRun ==
    LET runs == Column(WithoutExcluded, CarriedFromRun)
        points == Column(trends, CarriedByPoint)
    IN  /\ Len(points) = Len(runs)
        /\ \A k \in 1..Len(runs) : Times(runs[k], points) = Times(runs[k], runs)
        /\ \A i, j \in 1..Len(points) : i < j => points[i].date <= points[j].date
        /\ runs = <<>> => trends = <<>>

\* C13: computeTrends returns one point per non-excluded activity, in
\* ascending date order whatever the order of the list, each carrying its
\* activity's date, avg_hr, maf_pace, efficiency_factor, cadence_in_zone,
\* aerobic_decoupling, time_in_maf_zone_pct and qualifying flag, and no point
\* when no activity is non-excluded; the list it was handed keeps its records
\* and their order.
C13_OnePointPerRunInOrder ==
    [][ /\ OnePointPerRun'
        /\ Len(activities') >= Len(activities)
        /\ SubSeq(activities', 1, Len(activities)) = activities ]_vars

\* a list handed over out of date order, with an excluded run in it
C13_Witness ==
    /\ Len(activities) = 4
    /\ SomeExcluded
    /\ activities[1].date > activities[2].date
    /\ activities[2].date > activities[3].date
    /\ Len(trends) = 3
    /\ trends[1].date < trends[2].date
    /\ trends[2].date < trends[3].date
    /\ summaryAt > Start


-----------------------------------------------------------------------------
(* The summary of nothing.                                                 *)

\* every value unknown, every count 0, every trend 'insufficient'
NothingToSummarize(s) ==
    /\ s.currentAvgHr = <<>> /\ s.hrTrendSlope = <<>> /\ s.zoneDiscipline = <<>>
    /\ s.currentMafPace = <<>> /\ s.paceTrendSlope = <<>> /\ s.currentEf = <<>>
    /\ s.avgDecoupling = <<>> /\ s.avgCadence = <<>>
    /\ s.totalRuns = 0 /\ s.totalQualifyingRuns = 0 /\ s.qualifyingPct = <<0, 1>>
    /\ s.hrTrendDirection = "insufficient"
    /\ s.paceTrendDirection = "insufficient"
    /\ s.efTrendDirection = "insufficient"

\* C14: computeSummary of a list with no non-excluded activity (the empty
\* list, or one whose records are all excluded) has all eight values null,
\* the three counts 0 and the three trend directions 'insufficient'.
C14_EmptySummary ==
    /\ NothingToSummarize(computeSummary(<<>>))
    /\ (summary # <<>> /\ WithoutExcluded = <<>>) => NothingToSummarize(summary[1])

\* the summary of a list that holds one excluded run
C14_Witness ==
    /\ Len(activities) = 1
    /\ activities[1].excluded
    /\ summary # <<>>
    /\ summary[1].totalRuns = 0
    /\ summary[1].hrTrendDirection = "insufficient"


-----------------------------------------------------------------------------
(* The summary's current values.                                           *)

RecentRuns == InTrailingWeeks(4, summaryAt)
MeanOfAll(values) == RDiv(SumRat(values), <<Len(values), 1>>)

\* a non-excluded activity that none is later than
MostRecent(a) ==
    \A k \in 1..Len(WithoutExcluded) : WithoutExcluded[k].date <= a.date

\* C15: currentAvgHr, currentMafPace and currentEf are the means of avg_hr,
\* maf_pace and efficiency_factor over the non-excluded activities of the
\* trailing 4 weeks when there is one, and otherwise the three values of the
\* most recent non-excluded activity.
C15_CurrentValues ==
    (summary # <<>> /\ WithoutExcluded # <<>>) =>
        LET s == summary[1]
        IN  IF Len(RecentRuns) > 0
            THEN /\ s.currentAvgHr = MeanOfAll(Column(RecentRuns, LAMBDA a : <<a.avg_hr, 1>>))
                 /\ s.currentMafPace = MeanOfAll(Column(RecentRuns, LAMBDA a : a.maf_pace))
                 /\ s.currentEf = MeanOfAll(Column(RecentRuns, LAMBDA a : a.efficiency_factor))
            ELSE \E k \in 1..Len(WithoutExcluded) :
                    LET a == WithoutExcluded[k]
                    IN  /\ MostRecent(a)
                        /\ s.currentAvgHr = <<a.avg_hr, 1>>
                        /\ s.currentMafPace = a.maf_pace
                        /\ s.currentEf = a.efficiency_factor

\* three runs, the latest of them half a day past the 4 weeks: its values
C15_Witness ==
    /\ summary # <<>>
    /\ Len(WithoutExcluded) = 3
    /\ Len(RecentRuns) = 0
    /\ summaryAt = Start + 1
    /\ summary[1].currentAvgHr = <<130, 1>>
    /\ summary[1].currentEf = <<18, 13>>
    /\ RGt(summary[1].currentMafPace, <<5, 1>>)


-----------------------------------------------------------------------------
(* The summary's aggregates and their populations.                         *)

\* the non-excluded activities flagged qualifying
Qualifiers == SelectSeq(WithoutExcluded, LAMBDA a : a.qualifying)
MeanIfAny(values) == IF Len(values) > 0 THEN MeanOfAll(values) ELSE <<>>

\* C16: zoneDiscipline is the mean of time_in_maf_zone_pct over all the
\* non-excluded activities, qualifying or not; avgDecoupling and avgCadence
\* are the means of the non-null aerobic_decoupling (cadence_in_zone) values
\* of the non-excluded qualifying activities only, null when there is none.
C16_Populations ==
    (summary # <<>> /\ WithoutExcluded # <<>>) =>
        /\ summary[1].zoneDiscipline =
               MeanOfAll(Column(WithoutExcluded, LAMBDA a : a.time_in_maf_zone_pct))
        /\ summary[1].avgDecoupling =
               MeanIfAny(Known(Column(Qualifiers, LAMBDA a : a.aerobic_decoupling)))
        /\ summary[1].avgCadence =
               MeanIfAny(Known(Column(Qualifiers, LAMBDA a : a.cadence_in_zone)))

\* two qualifying runs with streams, one too short to qualify that has
\* streams too, and one qualifying run without: the short run counts for the
\* zone discipline only
C16_Witness ==
    /\ summary # <<>>
    /\ Len(WithoutExcluded) = 4
    /\ Len(Qualifiers) = 3
    /\ Len(Known(Column(WithoutExcluded, LAMBDA a : a.aerobic_decoupling))) = 3
    /\ Len(Known(Column(Qualifiers, LAMBDA a : a.aerobic_decoupling))) = 2
    /\ summary[1].avgCadence = <<165, 1>>
    /\ summary[1].avgDecoupling # <<>>


-----------------------------------------------------------------------------
(* The summary's counts.                                                   *)

NonExcludedCount == Cardinality({k \in 1..Len(activities) : ~activities[k].excluded})
QualifyingCount ==
    Cardinality({k \in 1..Len(activities) :
                    ~activities[k].excluded /\ activities[k].qualifying})

\* C17: in every summary totalRuns counts the non-excluded activities,
\* totalQualifyingRuns those of them flagged qualifying, and qualifyingPct is
\* 100 * totalQualifyingRuns / totalRuns, 0 when totalRuns is 0; so
\* 0 <= totalQualifyingRuns <= totalRuns and 0 <= qualifyingPct <= 100.
C17_Counts ==
    summary # <<>> =>
        LET s == summary[1]
            pct == s.qualifyingPct
        IN  /\ s.totalRuns = NonExcludedCount
            /\ s.totalQualifyingRuns = QualifyingCount
            /\ pct[1] * s.totalRuns = 100 * s.totalQualifyingRuns * pct[2]
            /\ s.totalRuns = 0 => pct = <<0, 1>>
            /\ 0 <= s.totalQualifyingRuns /\ s.totalQualifyingRuns <= s.totalRuns
            /\ 0 <= pct[1] /\ pct[1] <= 100 * pct[2]

\* two of three non-excluded runs qualify, beside an excluded one
C17_Witness ==
    /\ summary # <<>>
    /\ SomeExcluded
    /\ summary[1].totalRuns = 3
    /\ summary[1].totalQualifyingRuns = 2
    /\ summary[1].qualifyingPct = <<200, 3>>


-----------------------------------------------------------------------------
(* The duration the advisor suggests.                                      *)

\* the durations, in seconds, of the runs of the 7 days before the rendering
DurationsOfTrailingWeek ==
    {activities[k].duration_seconds : k \in DatedSince(7, adviceAt)}
Longest(durations) == CHOOSE d \in durations : \A e \in durations : e <= d

\* seconds as minutes, to the nearest minute, the half minute up
NearestMinute(seconds) == (seconds + 30) \div 60

ExtendLongRun == advice # <<>> /\ advice[1].headline = "Extend Your Long Run"

\* C18 as claimed: when the advisor chooses the extend-long-run advice (no
\* earlier rule matching, heart-rate trend improving, mean decoupling below 5)
\* the duration it suggests is the longest duration among the runs of the
\* trailing 7 days, in minutes to the nearest minute, plus 10, and 50 when the
\* trailing 7 days hold no run.
C18_SuggestedDuration ==
    ExtendLongRun =>
        /\ FirstMatch = 7
        /\ advice[1].figure =
              <<IF DurationsOfTrailingWeek = {} THEN 50
                ELSE NearestMinute(Longest(DurationsOfTrailingWeek)) + 10>>

\* C18 amended: the suggestion is the longest duration of the trailing 7
\* days in minutes to the nearest minute plus 10 when that duration is
\* positive, and 50 when it is 0; the trailing 7 days always hold a run when
\* this advice is chosen.
C18_SuggestedDurationOrDefault ==
    ExtendLongRun =>
        /\ FirstMatch = 7
        /\ DurationsOfTrailingWeek # {}
        /\ advice[1].figure =
              <<IF Longest(DurationsOfTrailingWeek) > 0
                THEN NearestMinute(Longest(DurationsOfTrailingWeek)) + 10
                ELSE 50>>

\* two runs in the trailing week, of 3000 s and of 3030 s (50 minutes and a
\* half), the longer one not the last of the list: 61 minutes suggested
C18_Witness ==
    /\ ExtendLongRun
    /\ DurationsOfTrailingWeek = {3000, 3030}
    /\ activities[Len(activities)].duration_seconds # 3030
    /\ advice[1].figure = <<61>>


-----------------------------------------------------------------------------
(* The formatPace calls under study: paces on a grid of 1/4 seconds up to  *)
(* MaxPaceMinutes minutes, and the paces of whole speeds up to MaxSpeed.   *)

PaceSteps == 240
MaxPaceMinutes == 12
MaxSpeed == 6

Paces ==
    {Norm(k, PaceSteps) : k \in 0..(MaxPaceMinutes * PaceSteps)}
    \cup {velocityToPace(v, u) : v \in 1..MaxSpeed, u \in Units}

\* the call returns
FormatPace ==
    /\ text = Null
    /\ text' = Some(formatPace(shown.pace, shown.units))
    /\ UNCHANGED <<analyzerVars, pipelineVars, dashVars, workerVars, shown>>

InitFormat ==
    /\ shown \in [pace : Paces, units : Units]
    /\ text = Null
    /\ args = Idle
    /\ analyzed = Null
    /\ previous = Null
    /\ pool = {}
    /\ activities = <<>>
    /\ now = 0
    /\ trends = <<>>
    /\ summary = Null
    /\ summaryAt = 0
    /\ advice = Null
    /\ adviceAt = 0
    /\ NoDashboard
    /\ NoWorker

NextFormat == FormatPace

SpecFormat == InitFormat /\ [][NextFormat]_vars

\* the whole minutes of the pace shown, and the rest in half seconds, rounded
\* to whole seconds with the half second up
WholeMinutes == shown.pace[1] \div shown.pace[2]
RestSeconds ==
    LET halves == ((shown.pace[1] - WholeMinutes * shown.pace[2]) * 120) \div shown.pace[2]
    IN  IF halves % 2 = 1 THEN (halves + 1) \div 2
        ELSE halves \div 2
TwoDigits(n) == ToString(n \div 10) \o ToString(n % 10)

\* C19: formatPace renders floor(pace) as the minutes and the fractional part
\* times 60, rounded to the nearest integer, as the seconds on two digits, as
\* 'M:SS /unit'; velocityToPace(3, 'km') is rendered '5:33 /km'; seconds that
\* round to 60 are rendered as 60, the minutes staying floor(pace).
C19_FormatPace ==
    text # <<>> =>
        /\ text[1] = ToString(WholeMinutes) \o ":" \o TwoDigits(RestSeconds) \o " /" \o shown.units
        /\ (shown.pace = velocityToPace(3, "km") /\ shown.units = "km") => text[1] = "5:33 /km"
        /\ RestSeconds = 60 => text[1] = ToString(WholeMinutes) \o ":60 /" \o shown.units

\* 5 minutes 59.75 seconds: rendered without the carry
C19_Witness ==
    /\ text # <<>>
    /\ shown.pace = <<1439, 240>>
    /\ shown.units = "km"
    /\ text[1] = "5:60 /km"


-----------------------------------------------------------------------------
(* analyzeActivity on missing and degenerate data.                         *)

\* a number that is the quotient of a division by something other than 0
Finite(x) == x[2] > 0
FiniteOrNull(x) == x = <<>> \/ Finite(x)

ArgSpeed == args.activity.average_speed
ArgAvgHr ==
    IF args.activity.average_heartrate = <<>> THEN 0 ELSE args.activity.average_heartrate[1]

\* C20: analyzeActivity returns a record for every raw activity and stream
\* set (heart rate or cadence absent or 0, speed 0, streams absent, only one
\* of the two streams, empty arrays, one sample, a short cadence stream); no
\* number in it comes from a division by zero; avg_pace is 0 for a
\* non-positive speed, and efficiency_factor is speed * 60 / heart rate when
\* both are positive and 0 otherwise.
C20_NeverFails ==
    Returned =>
        /\ Finite(Result.avg_pace) /\ Finite(Result.maf_pace)
        /\ Finite(Result.time_in_maf_zone_pct) /\ Finite(Result.time_in_qualifying_zone_pct)
        /\ Finite(Result.efficiency_factor)
        /\ FiniteOrNull(Result.cardiac_drift)
        /\ FiniteOrNull(Result.aerobic_decoupling)
        /\ FiniteOrNull(Result.cadence_in_zone)
        /\ ArgSpeed <= 0 => Result.avg_pace = <<0, 1>>
        /\ IF ArgSpeed > 0 /\ ArgAvgHr > 0
           THEN Result.efficiency_factor[1] * ArgAvgHr =
                    ArgSpeed * 60 * Result.efficiency_factor[2]
           ELSE Result.efficiency_factor = <<0, 1>>

\* no stream set, no average heart rate, average cadence 0, at a speed of 3
C20_Witness ==
    /\ Returned
    /\ args.streams = <<>>
    /\ args.activity.average_heartrate = <<>>
    /\ args.activity.average_cadence = <<0>>
    /\ ArgSpeed = 3
    /\ Result.efficiency_factor = <<0, 1>>
    /\ Result.avg_hr = 0
    /\ Result.avg_cadence = 0


-----------------------------------------------------------------------------
(* The split-half metrics of analyzeActivity, under SpecAnalyze.           *)

\* the mean of the samples s[from..to], 1-based and inclusive, from <= to
MeanOver(s, from, to) == RDiv(R(SumInt(SubSeq(s, from, to))), R(to - from + 1))

Midpoint == ArgLen \div 2
FirstHalfHr == MeanOver(ArgHr, 1, Midpoint)
SecondHalfHr == MeanOver(ArgHr, Midpoint + 1, ArgLen)
FirstHalfVelocity == MeanOver(ArgVelocity, 1, Midpoint)
SecondHalfVelocity == MeanOver(ArgVelocity, Midpoint + 1, ArgLen)
HrRatio == RDiv(SecondHalfHr, FirstHalfHr)
PaceRatio == RDiv(SecondHalfVelocity, FirstHalfVelocity)

\* C21: with both streams present, the samples 1..len split after
\* floor(len/2), aerobic_decoupling = 100 * (paceRatio / hrRatio - 1) with
\* paceRatio and hrRatio the second-half mean over the first-half mean of
\* velocity and of heart rate, each mean over exactly the samples of its half;
\* it is null when the first-half mean velocity or heart rate is <= 0 or
\* hrRatio <= 0 (and when there is no first half).
C21_Decoupling ==
    (Returned /\ BothStreams) =>
        IF Midpoint = 0 THEN Result.aerobic_decoupling = <<>>
        ELSE IF ~RGt(FirstHalfVelocity, R(0)) \/ ~RGt(FirstHalfHr, R(0))
             THEN Result.aerobic_decoupling = <<>>
        ELSE IF ~RGt(HrRatio, R(0)) THEN Result.aerobic_decoupling = <<>>
        ELSE Result.aerobic_decoupling =
                 RMul(R(100), RSub(RDiv(PaceRatio, HrRatio), R(1)))

\* C22: with both streams present, cardiac_drift = 100 * (secondHalf -
\* firstHalf) / firstHalf, firstHalf the mean heart rate of the samples
\* 1..floor(len/2) and secondHalf that of the samples floor(len/2)+1..len; it
\* is null when the first-half mean is 0 and when len < 2.
C22_CardiacDrift ==
    (Returned /\ BothStreams) =>
        IF Midpoint = 0 THEN Result.cardiac_drift = <<>>
        ELSE IF FirstHalfHr = <<0, 1>> THEN Result.cardiac_drift = <<>>
        ELSE Result.cardiac_drift =
                 RDiv(RMul(R(100), RSub(SecondHalfHr, FirstHalfHr)), FirstHalfHr)


-----------------------------------------------------------------------------
(* The in-zone pace and cadence of analyzeActivity, under SpecAnalyze.     *)

InZoneSamples ==
    {i \in 1..ArgLen : args.mafZoneLow <= ArgHr[i] /\ ArgHr[i] <= args.mafZoneHigh}

\* the pace of a sample: minutes per unit of distance
PaceOfSample(i) ==
    LET unit == IF args.units = "mi" THEN <<201168, 125>> ELSE <<1000, 1>>
    IN  RDiv(unit, R(60 * ArgVelocity[i]))

InZonePaces ==
    [i \in 1..ArgLen |->
        IF i \in InZoneSamples /\ ArgVelocity[i] > 0 THEN PaceOfSample(i) ELSE R(0)]

ArgCadence(i) ==
    IF args.streams[1].cadence # <<>> /\ i <= Len(args.streams[1].cadence[1])
    THEN args.streams[1].cadence[1][i] ELSE 0

InZoneWithCadence == {i \in InZoneSamples : ArgCadence(i) > 0}

InZoneCadences ==
    [i \in 1..ArgLen |-> IF i \in InZoneWithCadence THEN 2 * ArgCadence(i) ELSE 0]

MafPaceAndCadence ==
    /\ InZoneSamples # {} =>
          Result.maf_pace = RDiv(SumRat(InZonePaces), R(Cardinality(InZoneSamples)))
    /\ InZoneSamples = {} => Result.maf_pace = Result.avg_pace
    /\ InZoneWithCadence # {} =>
          Result.cadence_in_zone =
              RDiv(R(SumInt(InZoneCadences)), R(Cardinality(InZoneWithCadence)))
    /\ InZoneWithCadence = {} => Result.cadence_in_zone = <<>>

\* C23 as claimed: with both streams present, maf_pace is the sum of the
\* paces of the in-zone samples with positive velocity over the number of
\* in-zone samples, and equals avg_pace if and only if no sample is in the
\* zone; cadence_in_zone is the mean of twice the cadence over the in-zone
\* samples with positive cadence, null when there is none.
C23_MafPaceIff ==
    (Returned /\ BothStreams) =>
        /\ MafPaceAndCadence
        /\ Result.maf_pace = Result.avg_pace <=> InZoneSamples = {}

\* C23 amended: as above, but maf_pace equals avg_pace whenever no sample is
\* in the zone, and may equal it as well when some are (in-zone samples whose
\* paces average to the activity's pace).
C23_MafPace ==
    (Returned /\ BothStreams) => MafPaceAndCadence

\* two in-zone samples, one of them stopped and without cadence: the stopped
\* sample is counted in the pace, not in the cadence
C23_Witness ==
    /\ Returned
    /\ BothStreams
    /\ ArgHr = <<140, 140>>
    /\ ArgVelocity = <<3, 0>>
    /\ args.streams[1].cadence = << <<85, 0>> >>
    /\ args.units = "km"
    /\ Result.maf_pace = <<25, 9>>
    /\ Result.avg_pace = <<50, 9>>
    /\ Result.cadence_in_zone = <<170, 1>>


-----------------------------------------------------------------------------
(* The two zone percentages against each other, under SpecAnalyze.         *)

\* C28: for every analyzed activity, the tolerance being >= 0,
\* 0 <= time_in_maf_zone_pct <= time_in_qualifying_zone_pct <= 100, with
\* streams and without; so 60% in the MAF zone implies 60% in the qualifying
\* zone, while a run can qualify with less than 60% in the MAF zone.
C28_ZoneWithinQualifying ==
    (Returned /\ args.qualifyingTolerance >= 0) =>
        /\ RLe(R(0), Result.time_in_maf_zone_pct)
        /\ RLe(Result.time_in_maf_zone_pct, Result.time_in_qualifying_zone_pct)
        /\ RLe(Result.time_in_qualifying_zone_pct, R(100))
        /\ PctAtLeast(Result.time_in_maf_zone_pct, 60) =>
               PctAtLeast(Result.time_in_qualifying_zone_pct, 60)

\* a run that qualifies with no sample in the MAF zone: every sample lies in
\* the tolerance band above it
C28_Witness ==
    /\ Returned
    /\ BothStreams
    /\ ArgLen = 2
    /\ args.qualifyingTolerance = 10
    /\ Result.time_in_maf_zone_pct = <<0, 1>>
    /\ Result.time_in_qualifying_zone_pct = <<100, 1>>
    /\ Result.qualifying


-----------------------------------------------------------------------------
(* What getting past the consistency rule implies, under SpecAdvice.       *)

PastRuleOne == advice # <<>> /\ advice[1].headline # "Time to Run!"
AddAnotherRun == advice # <<>> /\ advice[1].headline = "Add Another Run"

\* C29: whenever the cascade gets past rule 1 (fewer than 3 whole days since
\* the most recent activity) an activity is dated within the trailing 7 days;
\* so the weekly count quoted by the add-volume advice is at least 1, and the
\* extend-long-run advice suggests its default of 50 minutes only when every
\* run of the trailing 7 days has duration 0 (a longest run of 40 minutes
\* gives 50 as well, by addition).
C29_PastRuleOne ==
    PastRuleOne =>
        /\ DaysSinceLastRun < 3
        /\ RunsInTrailingWeek >= 1
        /\ AddAnotherRun => advice[1].figure[1] >= 1
        /\ (ExtendLongRun /\ advice[1].figure = <<50>>) =>
              \/ DurationsOfTrailingWeek = {0}
              \/ NearestMinute(Longest(DurationsOfTrailingWeek)) = 40

\* the default suggested: the only run of the trailing week lasted 0 seconds
C29_Witness ==
    /\ ExtendLongRun
    /\ RunsInTrailingWeek = 1
    /\ DurationsOfTrailingWeek = {0}
    /\ advice[1].figure = <<50>>

-----------------------------------------------------------------------------
(* components/Dashboard: the cache of analyzed activities, its copy in     *)
(* localStorage, and the syncs, clicks and timers that write them.  A      *)
(* function of the component (syncActivities, handleSettingsClose) sees    *)
(* the state of the render that created it: a running sync and a pending   *)
(* timer carry that state with them.                                       *)

MaxSyncs == 2
MaxToggles == 2
MaxSaves == 1
MaxRanges == 1

\* what GET and PUT /api/settings answer for age 35 (km) and for age 45 (mi,
\* tolerance 0), modifier 0
SettingsOfAge35 ==
    [units |-> "km", maf_hr |-> 145, maf_zone_low |-> 140, maf_zone_high |-> 150,
     qualifying_tolerance |-> 10]
SettingsOfAge45 ==
    [units |-> "mi", maf_hr |-> 135, maf_zone_low |-> 130, maf_zone_high |-> 140,
     qualifying_tolerance |-> 0]
AllSettings == {SettingsOfAge35, SettingsOfAge45}

\* getDefaultRange().start and an earlier start the user can pick
DefaultRange == 2
EarlierRange == 1

StravaRun(id, date, hr) ==
    [id |-> id, start_date |-> date, elapsed_time |-> 1800, average_speed |-> 3,
     average_heartrate |-> Some(hr), average_cadence |-> Null]

\* the athlete's runs as the Worker lists them, latest first
ServerRuns == <<StravaRun(1, 3, 145), StravaRun(2, 2, 138), StravaRun(3, 1, 152)>>

\* GET /api/activities?after=: the runs dated at or after the range's start
Listing(after) == SelectSeq(ServerRuns, LAMBDA a : a.start_date >= after)

\* GET /api/activities/:id/streams, when it answers OK
StreamsOf(id) ==
    IF id = 2 THEN StreamSet(Some(<<138, 150>>), Some(<<3, 3>>), Null)
    ELSE StreamSet(Some(<<145, 145>>), Some(<<3, 3>>), Null)

StreamAnswers == {"ok", "notOk", "throws"}

\* let streams = null; try { if (streamRes.ok) streams = await streamRes.json() } catch {}
streamsFrom(answer, id) == IF answer = "ok" THEN StreamsOf(id) ELSE Null

\* JSON.stringify of the activity list: each record as its values in field order
stringify(acts) ==
    [k \in 1..Len(acts) |->
        <<acts[k].id, acts[k].date, acts[k].duration_seconds, acts[k].avg_hr,
          acts[k].avg_cadence, acts[k].avg_pace, acts[k].time_in_maf_zone_pct,
          acts[k].time_in_qualifying_zone_pct, acts[k].maf_pace, acts[k].cardiac_drift,
          acts[k].aerobic_decoupling, acts[k].cadence_in_zone, acts[k].efficiency_factor,
          acts[k].qualifying, acts[k].excluded>>]

\* JSON.parse of such a text
parse(json) ==
    [k \in 1..Len(json) |->
        [id |-> json[k][1], date |-> json[k][2], duration_seconds |-> json[k][3],
         avg_hr |-> json[k][4], avg_cadence |-> json[k][5], avg_pace |-> json[k][6],
         time_in_maf_zone_pct |-> json[k][7], time_in_qualifying_zone_pct |-> json[k][8],
         maf_pace |-> json[k][9], cardiac_drift |-> json[k][10],
         aerobic_decoupling |-> json[k][11], cadence_in_zone |-> json[k][12],
         efficiency_factor |-> json[k][13], qualifying |-> json[k][14],
         excluded |-> json[k][15]]]

\* new Set(JSON.parse(localStorage.getItem('maf_excluded') || '[]'))
excludedIdsOf(store) ==
    IF store.maf_excluded = Null THEN {}
    ELSE {store.maf_excluded[1][k] : k \in 1..Len(store.maf_excluded[1])}

\* map.set(a.id, a): an id the map has keeps its place, a new one goes last
mapSet(entries, a) ==
    IF \E k \in 1..Len(entries) : entries[k].id = a.id
    THEN [k \in 1..Len(entries) |-> IF entries[k].id = a.id THEN a ELSE entries[k]]
    ELSE Append(entries, a)

RECURSIVE mapSetAll(_, _)
mapSetAll(entries, items) ==
    IF items = <<>> THEN entries
    ELSE mapSetAll(mapSet(entries, Head(items)), Tail(items))

\* (a merge that keeps the record the cache already has for an id)
mergedKeepingOld(prev, newActivities) ==
    SortDesc(mapSetAll(mapSetAll(<<>>, newActivities), prev))

\* the updater of mergeIntoCache: new Map(prev), set every new activity,
\* Array.from(values), sort by date descending
merged(prev, newActivities) ==
    SortDesc(mapSetAll(mapSetAll(<<>>, prev), newActivities))

\* what a sync sees of the component: the render's cache and settings
Closure == [allActivities |-> allActivities, settings |-> settings]

\* the analyzeActivity call of a sync (lines 137-148)
analyzeFor(sync, activity, streams) ==
    analyzeActivity(activity, streams, sync.settings.maf_hr, sync.settings.maf_zone_low,
                    sync.settings.maf_zone_high, sync.settings.qualifying_tolerance,
                    sync.settings.units, activity.id \in sync.excludedIds)

\* syncActivities up to its first await
started(origin, closure, range) ==
    [pc |-> "fetching", origin |-> origin, cache |-> closure.allActivities,
     settings |-> closure.settings, range |-> range, raw |-> <<>>, excludedIds |-> {},
     toAnalyze |-> <<>>, alreadyCached |-> <<>>, analyzed |-> <<>>, failed |-> {}]

\* syncActivities after its finally block: what stays on record
finished(sync, raw, failed, outcome) ==
    [pc |-> outcome, origin |-> sync.origin, cache |-> <<>>, settings |-> sync.settings,
     range |-> sync.range, raw |-> raw, excludedIds |-> {}, toAnalyze |-> <<>>,
     alreadyCached |-> <<>>, analyzed |-> <<>>, failed |-> failed]

StartSync(origin, closure, range) ==
    /\ Len(syncs) < MaxSyncs
    /\ syncs' = Append(syncs, started(origin, closure, range))
    /\ syncing' = TRUE
    /\ error' = Null

\* lines 151-162: mergeIntoCache, lastSyncRange, setSyncing(false)
Complete(k, raw, batch, failed) ==
    /\ allActivities' = merged(allActivities, batch)
    /\ localStorage' =
           [localStorage EXCEPT !.maf_activities = Some(stringify(merged(allActivities, batch)))]
    /\ mergeCall' = Some([prev |-> allActivities, batch |-> batch])
    /\ lastSyncRange' = Some(syncs[k].range)
    /\ syncing' = FALSE
    /\ syncs' = [syncs EXCEPT ![k] = finished(syncs[k], raw, failed, "done")]
    /\ UNCHANGED <<settings, error, timers, dateRange, mounted, clicks>>

\* the mount effect (lines 193-204): load the stored cache, then sync
Mount ==
    /\ ~mounted
    /\ mounted' = TRUE
    /\ allActivities' =
           IF localStorage.maf_activities # Null
           THEN parse(localStorage.maf_activities[1]) ELSE allActivities
    /\ StartSync("mount", Closure, dateRange)
    /\ UNCHANGED <<analyzerVars, pipelineVars, formatVars, workerVars, settings, localStorage, timers,
                   dateRange, lastSyncRange, mergeCall, clicks>>

\* the answer to GET /api/activities arrives OK (lines 99-119); with nothing
\* to analyze the sync runs on to its end without another await
ListFetched(k) ==
    /\ syncs[k].pc = "fetching"
    /\ \E rawActivities \in {Listing(syncs[k].range)} :
       \E cachedIds \in {Ids(syncs[k].cache)} :
       LET toAnalyze == SelectSeq(rawActivities, LAMBDA a : a.id \notin cachedIds)
           have == SelectSeq(rawActivities, LAMBDA a : a.id \in cachedIds)
           alreadyCached ==
               [i \in 1..Len(have) |->
                   syncs[k].cache[CHOOSE j \in 1..Len(syncs[k].cache) :
                                      /\ syncs[k].cache[j].id = have[i].id
                                      /\ \A l \in (j+1)..Len(syncs[k].cache) :
                                            syncs[k].cache[l].id # have[i].id]]
       IN  IF toAnalyze = <<>>
           THEN Complete(k, rawActivities, alreadyCached, {})
           ELSE /\ syncs' = [syncs EXCEPT ![k] =
                               [@ EXCEPT !.pc = "analyzing", !.raw = rawActivities,
                                         !.excludedIds = excludedIdsOf(localStorage),
                                         !.toAnalyze = toAnalyze,
                                         !.alreadyCached = alreadyCached]]
                /\ UNCHANGED <<settings, allActivities, localStorage, syncing, error, timers,
                               dateRange, lastSyncRange, mounted, mergeCall, clicks>>
    /\ UNCHANGED <<analyzerVars, pipelineVars, formatVars, workerVars>>

\* the fetch of the list throws or answers non-OK (lines 98, 159-162)
ListFailed(k) ==
    /\ syncs[k].pc = "fetching"
    /\ error' = Some("Failed to fetch activities")
    /\ syncing' = FALSE
    /\ syncs' = [syncs EXCEPT ![k] = finished(syncs[k], <<>>, {}, "failed")]
    /\ UNCHANGED <<analyzerVars, pipelineVars, formatVars, workerVars, settings, allActivities,
                   localStorage, timers, dateRange, lastSyncRange, mounted, mergeCall, clicks>>

\* (a sync that gives up when a stream fetch fails)
StreamFetchedOrAbort(k, answer) ==
    /\ syncs[k].pc = "analyzing"
    /\ LET sync == syncs[k]
           activity == sync.toAnalyze[Len(sync.analyzed) + 1]
           analyzed2 == Append(sync.analyzed,
                               analyzeFor(sync, activity, streamsFrom(answer, activity.id)))
       IN  IF answer # "ok"
           THEN /\ error' = Some("Failed to fetch streams")
                /\ syncing' = FALSE
                /\ syncs' = [syncs EXCEPT ![k] =
                                finished(sync, sync.raw, sync.failed \cup {activity.id},
                                         "done")]
                /\ UNCHANGED <<settings, allActivities, localStorage, timers, dateRange,
                               lastSyncRange, mounted, mergeCall, clicks>>
           ELSE IF Len(analyzed2) = Len(sync.toAnalyze)
           THEN Complete(k, sync.raw, sync.alreadyCached \o analyzed2, sync.failed)
           ELSE /\ syncs' = [syncs EXCEPT ![k] = [@ EXCEPT !.analyzed = analyzed2]]
                /\ UNCHANGED <<settings, allActivities, localStorage, syncing, error, timers,
                               dateRange, lastSyncRange, mounted, mergeCall, clicks>>
    /\ UNCHANGED <<analyzerVars, pipelineVars, formatVars, workerVars>>

\* one turn of the loop of lines 123-149: the stream fetch is answered, the
\* activity analyzed; after the last one the sync runs on to its end
StreamFetched(k, answer) ==
    /\ syncs[k].pc = "analyzing"
    /\ LET sync == syncs[k]
           activity == sync.toAnalyze[Len(sync.analyzed) + 1]
           analyzed2 == Append(sync.analyzed,
                               analyzeFor(sync, activity, streamsFrom(answer, activity.id)))
           failed2 == IF answer = "ok" THEN sync.failed ELSE sync.failed \cup {activity.id}
       IN  IF Len(analyzed2) = Len(sync.toAnalyze)
           THEN Complete(k, sync.raw, sync.alreadyCached \o analyzed2, failed2)
           ELSE /\ syncs' = [syncs EXCEPT ![k] =
                               [@ EXCEPT !.analyzed = analyzed2, !.failed = failed2]]
                /\ UNCHANGED <<settings, allActivities, localStorage, syncing, error, timers,
                               dateRange, lastSyncRange, mounted, mergeCall, clicks>>
    /\ UNCHANGED <<analyzerVars, pipelineVars, formatVars, workerVars>>

\* excludedIds after the click: the id deleted if present, added last if not
toggled(ids, id) ==
    IF \E k \in 1..Len(ids) : ids[k] = id
    THEN SelectSeq(ids, LAMBDA x : x # id) ELSE Append(ids, id)

\* the updater of toggleExclude (lines 179-189)
rechecked(prev, id, isExcluded) ==
    [k \in 1..Len(prev) |->
        LET a == IF prev[k].id = id THEN [prev[k] EXCEPT !.excluded = isExcluded] ELSE prev[k]
        IN  [a EXCEPT !.qualifying =
                 /\ ~a.excluded
                 /\ a.duration_seconds >= 1200
                 /\ RGe(a.time_in_qualifying_zone_pct, R(60))]]

\* a click on the exclude button of a row shown (lines 166-190)
ToggleExclude(id) ==
    /\ mounted
    /\ clicks.toggles < MaxToggles
    /\ \E k \in 1..Len(allActivities) :
          allActivities[k].id = id /\ allActivities[k].date >= dateRange
    /\ clicks' = [clicks EXCEPT !.toggles = @ + 1]
    /\ \E ids \in {toggled(IF localStorage.maf_excluded = Null THEN <<>>
                           ELSE localStorage.maf_excluded[1], id)} :
       \E next \in {rechecked(allActivities, id, \E k \in 1..Len(ids) : ids[k] = id)} :
          /\ allActivities' = next
          /\ localStorage' = [maf_excluded |-> Some(ids), maf_activities |-> Some(stringify(next))]
    /\ UNCHANGED <<analyzerVars, pipelineVars, formatVars, workerVars, settings, syncing, error, syncs,
                   timers, dateRange, lastSyncRange, mounted, mergeCall>>

\* the settings modal closes with saved settings (lines 216-228): the cache
\* is dropped and a sync is set to start 100 ms later, by the function this
\* render created
SaveSettings(updated) ==
    /\ mounted
    /\ clicks.saves < MaxSaves
    /\ updated # settings
    /\ clicks' = [clicks EXCEPT !.saves = @ + 1]
    /\ settings' = updated
    /\ localStorage' = [localStorage EXCEPT !.maf_activities = Null]
    /\ allActivities' = <<>>
    /\ timers' = Append(timers, [closure |-> Closure, range |-> dateRange])
    /\ UNCHANGED <<analyzerVars, pipelineVars, formatVars, workerVars, syncing, error, syncs, dateRange,
                   lastSyncRange, mounted, mergeCall>>

\* the timeout of line 226 fires
TimerFires ==
    /\ timers # <<>>
    /\ StartSync("settings", Head(timers).closure, Head(timers).range)
    /\ timers' = Tail(timers)
    /\ UNCHANGED <<analyzerVars, pipelineVars, formatVars, workerVars, settings, allActivities,
                   localStorage, dateRange, lastSyncRange, mounted, mergeCall, clicks>>

\* the user picks another start of the date range; the effect of lines
\* 207-214 syncs when it lies before the start last synced
SetDateRange(start) ==
    /\ mounted
    /\ clicks.ranges < MaxRanges
    /\ start # dateRange
    /\ clicks' = [clicks EXCEPT !.ranges = @ + 1]
    /\ dateRange' = start
    /\ IF lastSyncRange # Null /\ start < lastSyncRange[1]
       THEN StartSync("range", Closure, start)
       ELSE UNCHANGED <<syncs, syncing, error>>
    /\ UNCHANGED <<analyzerVars, pipelineVars, formatVars, workerVars, settings, allActivities,
                   localStorage, timers, lastSyncRange, mounted, mergeCall>>

\* localStorage when the page loads: empty on a first visit, or as an earlier
\* visit under the same settings left it, before run 1 was recorded, after a
\* sync of the earlier range (the streams of run 2 not fetched) and the
\* exclusion of run 2
FirstVisit == [maf_activities |-> Null, maf_excluded |-> Null]
EarlierVisit ==
    LET sync == [settings |-> SettingsOfAge35, excludedIds |-> {}]
        first == merged(<<>>, <<analyzeFor(sync, ServerRuns[2], Null),
                                analyzeFor(sync, ServerRuns[3], StreamsOf(3))>>)
    IN  [maf_activities |-> Some(stringify(rechecked(first, 2, TRUE))),
         maf_excluded |-> Some(<<2>>)]

InitDashboard ==
    /\ settings = SettingsOfAge35
    /\ allActivities = <<>>
    /\ localStorage \in {FirstVisit, EarlierVisit}
    /\ syncing = FALSE
    /\ error = Null
    /\ syncs = <<>>
    /\ timers = <<>>
    /\ dateRange = DefaultRange
    /\ lastSyncRange = Null
    /\ mounted = FALSE
    /\ mergeCall = Null
    /\ clicks = [toggles |-> 0, saves |-> 0, ranges |-> 0]
    /\ NoWorker
    /\ args = Idle
    /\ analyzed = Null
    /\ previous = Null
    /\ pool = {}
    /\ activities = <<>>
    /\ now = 0
    /\ trends = <<>>
    /\ summary = Null
    /\ summaryAt = 0
    /\ advice = Null
    /\ adviceAt = 0
    /\ shown = NothingShown
    /\ text = Null

NextDashboard ==
    \/ Mount
    \/ \E k \in 1..Len(syncs) : ListFetched(k)
    \/ \E k \in 1..Len(syncs) : ListFailed(k)
    \/ \E k \in 1..Len(syncs), answer \in StreamAnswers : StreamFetched(k, answer)
    \/ \E id \in Ids(ServerRuns) : ToggleExclude(id)
    \/ \E updated \in AllSettings : SaveSettings(updated)
    \/ TimerFires
    \/ \E start \in {DefaultRange, EarlierRange} : SetDateRange(start)

SpecDashboard == InitDashboard /\ [][NextDashboard]_vars

-----------------------------------------------------------------------------
(* Claims about the Dashboard cache, under SpecDashboard.                  *)

RawOf(id) == ServerRuns[CHOOSE k \in 1..Len(ServerRuns) : ServerRuns[k].id = id]

\* the record is an analysis of its run under the settings s, with or
\* without streams, excluded or not
AnalyzedUnder(a, s) ==
    \E streams \in {Null, StreamsOf(a.id)}, excluded \in BOOLEAN :
        a = analyzeActivity(RawOf(a.id), streams, s.maf_hr, s.maf_zone_low, s.maf_zone_high,
                            s.qualifying_tolerance, s.units, excluded)

AllUnder(acts, s) == \A k \in 1..Len(acts) : AnalyzedUnder(acts[k], s)

StoredActivities(store) ==
    IF store.maf_activities = <<>> THEN <<>> ELSE parse(store.maf_activities[1])

Running(k) == syncs[k].pc \in {"fetching", "analyzing"}
Completes(k) == Running(k) /\ Len(syncs') >= k /\ syncs'[k].pc = "done"

\* C24: when the sync that a save of changed settings set off has completed,
\* every activity of the cache, and of its localStorage copy, is an analysis
\* under the new settings.
C24_ResyncUnderNewSettings ==
    [][\A k \in 1..Len(syncs) :
          (syncs[k].origin = "settings" /\ Completes(k)) =>
              /\ AllUnder(allActivities', settings')
              /\ AllUnder(StoredActivities(localStorage'), settings')]_vars

UniqueIds(acts) == \A i, j \in 1..Len(acts) : acts[i].id = acts[j].id => i = j
DateDescending(acts) == \A i, j \in 1..Len(acts) : i < j => acts[i].date >= acts[j].date
RecordOf(acts, id) == acts[CHOOSE k \in 1..Len(acts) : acts[k].id = id]
LastOf(acts, id) ==
    acts[CHOOSE k \in 1..Len(acts) :
            acts[k].id = id /\ \A l \in (k+1)..Len(acts) : acts[l].id # id]

\* C25: the cache never holds two records of one id and stays sorted by date
\* descending; a mergeIntoCache call leaves each id of its batch with the
\* batch's record, every other id with the record it had, no further id, and
\* the localStorage copy equal to the cache.
C25_MergeById ==
    [][/\ UniqueIds(allActivities')
       /\ DateDescending(allActivities')
       /\ (\E k \in 1..Len(syncs) : Completes(k)) =>
             LET batch == mergeCall'[1].batch
             IN  /\ mergeCall'[1].prev = allActivities
                 /\ Ids(allActivities') = Ids(allActivities) \cup Ids(batch)
                 /\ \A id \in Ids(batch) :
                       RecordOf(allActivities', id) = LastOf(batch, id)
                 /\ \A id \in Ids(allActivities) \ Ids(batch) :
                       RecordOf(allActivities', id) = RecordOf(allActivities, id)
                 /\ localStorage'.maf_activities # <<>>
                 /\ StoredActivities(localStorage') = allActivities']_vars

\* a merge that replaced the record of an id, kept another the batch did not
\* have, and had to sort
C25_Witness ==
    /\ mergeCall # <<>>
    /\ \E id \in Ids(mergeCall[1].batch) \cap Ids(mergeCall[1].prev) :
          RecordOf(mergeCall[1].prev, id) # LastOf(mergeCall[1].batch, id)
    /\ Ids(mergeCall[1].prev) \ Ids(mergeCall[1].batch) # {}
    /\ allActivities = merged(mergeCall[1].prev, mergeCall[1].batch)
    /\ allActivities # mapSetAll(mergeCall[1].prev, mergeCall[1].batch)
    /\ StoredActivities(localStorage) = allActivities

\* the turn of the loop that sync k is waiting in
Turn(k) == Len(syncs[k].analyzed) + 1
Answered(k) ==
    /\ syncs[k].pc = "analyzing"
    /\ Len(syncs') >= k
    /\ syncs'[k] # syncs[k]
FetchFailed(k) == Answered(k) /\ syncs'[k].failed # syncs[k].failed

\* C26: when the fetch of an activity's streams throws or answers non-OK the
\* sync shows no error, analyzes that activity with streams = null and goes
\* on to the next one; a sync whose list arrived ends with every listed
\* activity in the cache, no error set by it, and syncing false.
C26_StreamFailureIsNoError ==
    [][\A k \in 1..Len(syncs) :
          /\ FetchFailed(k) =>
                LET activity == syncs[k].toAnalyze[Turn(k)]
                    coarse == analyzeFor(syncs[k], activity, <<>>)
                IN  /\ error' = error
                    /\ syncs'[k].failed = syncs[k].failed \cup {activity.id}
                    /\ IF Turn(k) < Len(syncs[k].toAnalyze)
                       THEN /\ syncs'[k].pc = "analyzing"
                            /\ syncs'[k].analyzed = Append(syncs[k].analyzed, coarse)
                       ELSE /\ syncs'[k].pc = "done"
                            /\ mergeCall'[1].batch =
                                   syncs[k].alreadyCached \o Append(syncs[k].analyzed, coarse)
          /\ Completes(k) =>
                /\ Ids(syncs'[k].raw) \subseteq Ids(allActivities')
                /\ Ids(syncs'[k].raw) = Ids(Listing(syncs[k].range))
                /\ error' = error
                /\ ~syncing']_vars

\* a sync of two runs has ended; the stream fetch of the first had failed, and
\* both are in the cache, the first as the coarse estimate, with no error
C26_Witness ==
    /\ Len(syncs) = 1
    /\ syncs[1].pc = "done"
    /\ syncs[1].failed = {1}
    /\ Ids(syncs[1].raw) = {1, 2}
    /\ {1, 2} \subseteq Ids(allActivities)
    /\ RecordOf(allActivities, 1).time_in_maf_zone_pct = <<75, 1>>
    /\ RecordOf(allActivities, 2).time_in_maf_zone_pct = <<50, 1>>
    /\ error = <<>>
    /\ ~syncing

Quiescent ==
    /\ mounted
    /\ timers = <<>>
    /\ \A k \in 1..Len(syncs) : ~Running(k)

\* C27: once every sync started and every click has completed, each activity
\* of the cache has excluded = (its id is in the stored maf_excluded set) and
\* qualifying = (not excluded, at least 1200 s, at least 60% in the
\* qualifying zone).
C27_ExcludedAsStored ==
    Quiescent =>
        \A k \in 1..Len(allActivities) :
            LET a == allActivities[k]
            IN  /\ a.excluded <=> a.id \in excludedIdsOf(localStorage)
                /\ a.qualifying <=>
                      (/\ ~a.excluded
                       /\ a.duration_seconds >= 1200
                       /\ PctAtLeast(a.time_in_qualifying_zone_pct, 60))

-----------------------------------------------------------------------------
(* The Worker (src/worker/src/index.ts): one athlete's cached activity     *)
(* list in KV, read and written back by GET /api/activities and by the     *)
(* handlers of Strava's webhook events.  Each await of a handler is a step *)
(* of its own; whatever runs between two awaits is one step.  The session  *)
(* is valid and the athlete's token is valid (without them the handlers    *)
(* return before they touch the list).                                     *)

MaxRequests == 3
MaxName == 1

WorkerIds == {1, 2, 3}

\* an activity as Strava returns it: the start date of activity n is n; the
\* name counts the athlete's edits; 1 is a trail run, 2 a run, 3 a ride
StravaActivity(id, name) ==
    [id |-> id, start_date |-> id, name |-> name,
     type |-> IF id = 3 THEN "Ride" ELSE "Run",
     sport_type |-> IF id = 3 THEN "Ride" ELSE IF id = 1 THEN "TrailRun" ELSE "Run"]

\* a.type === 'Run' || a.sport_type === 'Run'
isRun(a) == a.type = "Run" \/ a.sport_type = "Run"

\* JSON.stringify of an activity list, and JSON.parse of such a text
toJson(list) ==
    [k \in 1..Len(list) |->
        <<list[k].id, list[k].start_date, list[k].name, list[k].type, list[k].sport_type>>]
fromJson(json) ==
    [k \in 1..Len(json) |->
        [id |-> json[k][1], start_date |-> json[k][2], name |-> json[k][3],
         type |-> json[k][4], sport_type |-> json[k][5]]]

\* cached ? JSON.parse(cached) : []
cachedOrEmpty(cached) == IF cached = Null THEN <<>> ELSE fromJson(cached[1])

\* sort((a, b) => time(b.start_date) - time(a.start_date)): stable, descending
RECURSIVE insertByStart(_, _)
insertByStart(x, t) ==
    IF t = <<>> THEN <<x>>
    ELSE IF x.start_date >= Head(t).start_date THEN <<x>> \o t
    ELSE <<Head(t)>> \o insertByStart(x, Tail(t))

RECURSIVE sortByStart(_)
sortByStart(s) == IF s = <<>> THEN <<>> ELSE insertByStart(Head(s), sortByStart(Tail(s)))

\* the start of the six months before Date.now(): every activity is later
SixMonthsAgo == 0

\* the latest start date of a list that is not empty
RECURSIVE latestStart(_)
latestStart(list) ==
    IF Len(list) = 1 THEN list[1].start_date
    ELSE LET rest == latestStart(Tail(list))
         IN  IF list[1].start_date > rest THEN list[1].start_date ELSE rest

\* `after` of the Strava query: the latest start date cached, or six months ago
afterOf(existingActivities) ==
    IF Len(existingActivities) > 0 THEN latestStart(existingActivities) ELSE SixMonthsAgo

\* what Strava lists for ?after=: the athlete's activities started after it
\* (or at it, where Strava counts the bound in), oldest first
RECURSIVE listedUpTo(_, _, _)
listedUpTo(n, after, inclusive) ==
    IF n = 0 THEN <<>>
    ELSE LET rest == listedUpTo(n - 1, after, inclusive)
         IN  IF /\ n \in WorkerIds
                /\ strava[n].status = "there"
                /\ (n > after \/ (inclusive /\ n = after))
             THEN Append(rest, StravaActivity(n, strava[n].name))
             ELSE rest

stravaListing(after, inclusive) == listedUpTo(3, after, inclusive)

\* Array.from(new Map([...existing, ...new].map(a => [a.id, a])).values()), sorted
deduped(existingActivities, newActivities) ==
    sortByStart(mapSetAll(<<>>, existingActivities \o newActivities))

\* the response's list: all of it, or the part at or after ?after=
responseActivities(list, filterAfter) ==
    IF filterAfter = Null THEN list
    ELSE SelectSeq(list, LAMBDA a : a.start_date >= filterAfter[1])

\* activities.filter(a => a.id !== activity.id), push(activity), sort
upserted(list, activity) ==
    sortByStart(Append(SelectSeq(list, LAMBDA a : a.id # activity.id), activity))

\* activities.filter(a => a.id !== event.object_id)
removed(list, id) == SelectSeq(list, LAMBDA a : a.id # id)

\* a request the Worker has accepted: where it stands and its local variables
request(kind, id, pc, filterAfter) ==
    [kind |-> kind, id |-> id, pc |-> pc, filterAfter |-> filterAfter,
     existing |-> <<>>, after |-> 0, newActivities |-> <<>>, activity |-> Null,
     out |-> <<>>, response |-> Null]

at(k, kinds, pc) == requests[k].kind \in kinds /\ requests[k].pc = pc

moved(k, changes) == [requests EXCEPT ![k] = changes @@ requests[k]]

\* the athlete records, edits or deletes an activity on Strava, and Strava
\* posts the event: the webhook handler runs up to its first await
Event(aspect, id) ==
    /\ Len(requests) < MaxRequests
    /\ \/ /\ aspect = "create"
          /\ strava[id].status = "none"
          /\ strava' = [strava EXCEPT ![id] = [status |-> "there", name |-> 0]]
       \/ /\ aspect = "update"
          /\ strava[id].status = "there"
          /\ strava[id].name < MaxName
          /\ strava' = [strava EXCEPT ![id].name = @ + 1]
       \/ /\ aspect = "delete"
          /\ strava[id].status = "there"
          /\ strava' = [strava EXCEPT ![id].status = "deleted"]
    /\ requests' = Append(requests,
                          request(aspect, id, IF aspect = "delete" THEN "get" ELSE "fetch", Null))
    /\ UNCHANGED <<analyzerVars, pipelineVars, formatVars, dashVars, kv>>

\* create/update: Strava answers the fetch of the activity (lines 427-435)
ActivityFetched(k, answer) ==
    /\ at(k, {"create", "update"}, "fetch")
    /\ answer = "ok" => strava[requests[k].id].status = "there"
    /\ \E activity \in {StravaActivity(requests[k].id, strava[requests[k].id].name)} :
          requests' =
              IF answer = "ok" /\ isRun(activity)
              THEN moved(k, [pc |-> "get", activity |-> Some(activity)])
              ELSE moved(k, [pc |-> "done"])
    /\ UNCHANGED <<analyzerVars, pipelineVars, formatVars, dashVars, kv, strava>>

\* create/update: the cached list is read, the activity put in its place (437-443)
WebhookGet(k) ==
    /\ at(k, {"create", "update"}, "get")
    /\ requests' = moved(k, [pc |-> "put",
                             existing |-> cachedOrEmpty(kv.activities),
                             out |-> upserted(cachedOrEmpty(kv.activities),
                                              requests[k].activity[1])])
    /\ UNCHANGED <<analyzerVars, pipelineVars, formatVars, dashVars, kv, strava>>

\* create/update: the list is written back (444)
WebhookPut(k) ==
    /\ at(k, {"create", "update"}, "put")
    /\ kv' = [kv EXCEPT !.activities = Some(toJson(requests[k].out))]
    /\ requests' = moved(k, [pc |-> "done"])
    /\ UNCHANGED <<analyzerVars, pipelineVars, formatVars, dashVars, strava>>

\* delete: the cached list is read and filtered (452-456)
DeleteGet(k) ==
    /\ at(k, {"delete"}, "get")
    /\ requests' =
          IF kv.activities # Null
          THEN moved(k, [pc |-> "put",
                         existing |-> fromJson(kv.activities[1]),
                         out |-> removed(fromJson(kv.activities[1]), requests[k].id)])
          ELSE moved(k, [pc |-> "stream"])
    /\ UNCHANGED <<analyzerVars, pipelineVars, formatVars, dashVars, kv, strava>>

\* delete: the list is written back (457)
DeletePut(k) ==
    /\ at(k, {"delete"}, "put")
    /\ kv' = [kv EXCEPT !.activities = Some(toJson(requests[k].out))]
    /\ requests' = moved(k, [pc |-> "stream"])
    /\ UNCHANGED <<analyzerVars, pipelineVars, formatVars, dashVars, strava>>

\* delete: the activity's cached streams are deleted (459)
StreamDeleted(k) ==
    /\ at(k, {"delete"}, "stream")
    /\ kv' = [kv EXCEPT !.streams = @ \ {requests[k].id}]
    /\ requests' = moved(k, [pc |-> "done"])
    /\ UNCHANGED <<analyzerVars, pipelineVars, formatVars, dashVars, strava>>

\* GET /api/activities arrives, with or without ?after= (226-234)
SyncRequested(filterAfter) ==
    /\ Len(requests) < MaxRequests
    /\ requests' = Append(requests, request("sync", 0, "get", filterAfter))
    /\ UNCHANGED <<analyzerVars, pipelineVars, formatVars, dashVars, kv, strava>>

\* the cached list is read and `after` computed from it (235-246)
SyncGet(k) ==
    /\ at(k, {"sync"}, "get")
    /\ \E existingActivities \in {cachedOrEmpty(kv.activities)} :
          requests' = moved(k, [pc |-> "list",
                                existing |-> existingActivities,
                                after |-> afterOf(existingActivities)])
    /\ UNCHANGED <<analyzerVars, pipelineVars, formatVars, dashVars, kv, strava>>

\* Strava answers the listing (one page), its runs are merged in (248-287)
SyncListed(k, inclusive) ==
    /\ at(k, {"sync"}, "list")
    /\ \E runs \in {SelectSeq(stravaListing(requests[k].after, inclusive), isRun)} :
          requests' = moved(k, [pc |-> "put",
                                newActivities |-> runs,
                                out |-> deduped(requests[k].existing, runs)])
    /\ UNCHANGED <<analyzerVars, pipelineVars, formatVars, dashVars, kv, strava>>

\* Strava refuses the listing: the error is returned, nothing is written (259-262)
SyncRefused(k) ==
    /\ at(k, {"sync"}, "list")
    /\ requests' = moved(k, [pc |-> "done", response |-> Some("Strava API error")])
    /\ UNCHANGED <<analyzerVars, pipelineVars, formatVars, dashVars, kv, strava>>

\* the merged list is written back and the response built from it (289-307)
SyncPut(k) ==
    /\ at(k, {"sync"}, "put")
    /\ kv' = [kv EXCEPT !.activities = Some(toJson(requests[k].out))]
    /\ \E shownPart \in {responseActivities(requests[k].out, requests[k].filterAfter)} :
          requests' = moved(k, [pc |-> "done",
                                response |-> Some([activities |-> shownPart,
                                                   total |-> Len(requests[k].out),
                                                   returned |-> Len(shownPart),
                                                   new_fetched |-> Len(requests[k].newActivities)])])
    /\ UNCHANGED <<analyzerVars, pipelineVars, formatVars, dashVars, strava>>

\* KV before the athlete's first sync, and after a sync that cached run 2
\* and a streams request for it
NeverSynced == [activities |-> Null, streams |-> {}]
SyncedOnce == [activities |-> Some(toJson(<<StravaActivity(2, 0)>>)), streams |-> {2}]

InitWorker ==
    /\ kv \in {NeverSynced, SyncedOnce}
    /\ strava = [id \in WorkerIds |->
                    IF id = 2 THEN [status |-> "there", name |-> 0]
                    ELSE [status |-> "none", name |-> 0]]
    /\ requests = <<>>
    /\ NoDashboard
    /\ args = Idle
    /\ analyzed = Null
    /\ previous = Null
    /\ pool = {}
    /\ activities = <<>>
    /\ now = 0
    /\ trends = <<>>
    /\ summary = Null
    /\ summaryAt = 0
    /\ advice = Null
    /\ adviceAt = 0
    /\ shown = NothingShown
    /\ text = Null

NextWorker ==
    \/ \E aspect \in {"create", "update", "delete"}, id \in WorkerIds : Event(aspect, id)
    \/ \E k \in 1..Len(requests), answer \in {"ok", "notOk", "throws"} : ActivityFetched(k, answer)
    \/ \E k \in 1..Len(requests) : WebhookGet(k)
    \/ \E k \in 1..Len(requests) : WebhookPut(k)
    \/ \E k \in 1..Len(requests) : DeleteGet(k)
    \/ \E k \in 1..Len(requests) : DeletePut(k)
    \/ \E k \in 1..Len(requests) : StreamDeleted(k)
    \/ \E filterAfter \in {Null, Some(2)} : SyncRequested(filterAfter)
    \/ \E k \in 1..Len(requests) : SyncGet(k)
    \/ \E k \in 1..Len(requests), inclusive \in BOOLEAN : SyncListed(k, inclusive)
    \/ \E k \in 1..Len(requests) : SyncRefused(k)
    \/ \E k \in 1..Len(requests) : SyncPut(k)

SpecWorker == InitWorker /\ [][NextWorker]_vars

-----------------------------------------------------------------------------
(* Claims about the Worker's cached list.                                  *)

CachedList == cachedOrEmpty(kv.activities)

\* the entries the list holds for an id
EntriesOf(list, id) == {k \in 1..Len(list) : list[k].id = id}
EntryOf(list, id) == {list[k] : k \in EntriesOf(list, id)}

\* a completed create/update handler stored the entry the list holds for id
StoredByWebhook(id) ==
    \E k \in 1..Len(requests) :
        /\ at(k, {"create", "update"}, "done")
        /\ requests[k].id = id
        /\ requests[k].activity # Null
        /\ EntryOf(CachedList, id) = {requests[k].activity[1]}

\* a completed delete handler removed id and the list holds no entry for it
RemovedByWebhook(id) ==
    \E k \in 1..Len(requests) :
        /\ at(k, {"delete"}, "done")
        /\ requests[k].id = id
        /\ EntryOf(CachedList, id) = {}

\* this step is taken by the GET /api/activities handler k
SyncStep(k) == requests[k].kind = "sync" /\ requests'[k] # requests[k]

\* C30: what a completed webhook handler left in the cached list for an
\* activity id (its entry after create/update, no entry after delete) is not
\* changed by a GET /api/activities sync, however the two interleave, unless
\* the Strava listing that sync fetched holds that id.
C30_WebhookOutcomeKept ==
    [][\A id \in WorkerIds, k \in 1..Len(requests) :
          /\ StoredByWebhook(id) \/ RemovedByWebhook(id)
          /\ SyncStep(k)
          /\ EntryOf(CachedList', id) # EntryOf(CachedList, id)
          => id \in Ids(requests[k].newActivities)]_vars

\* the other half of C30: the cached list holds at most one entry per id
OneEntryPerId ==
    \A id \in WorkerIds : Cardinality(EntriesOf(CachedList, id)) <= 1

=============================================================================
